---- MODULE Spec2Model ----
(***************************************************************************)
(* Model of the distributed cron scheduler: the etcd lock keys and leases, *)
(* the worker JobLock, the worker job cache and its watch, the scheduler   *)
(* loop (plans, in-flight table, tick), the executor and the two consumers *)
(* of the executor's result channel.                                       *)
(*                                                                         *)
(* Time is counted in whole seconds (the resolution of the cron            *)
(* expressions); a scheduler tick may happen at any moment of a second.    *)
(***************************************************************************)
EXTENDS Integers, Sequences, FiniteSets, TLC

\* ------------------------------------------------------------------ bounds
MaxTime == 3          \* the clock stops advancing at this second
MaxLease == 2         \* lease ids are 1..MaxLease (0 is "no lease")
EventChanCap == 2     \* capacity of JobManager.eventChan (1000 in the code)
ResultChanCap == 1    \* capacity of Executor.jobResults (1000 in the code)
MaxWatch == 1         \* watch deltas buffered per worker before delivery
LogChanCap == 2       \* capacity of LogSink.logChan (1000 in the code)
LogBatchSize == 2     \* config.LogBatchSize (100 by default)
MaxLogs == 5          \* JobLogs handed to LogSink.Append
MaxRegTime == 10      \* seconds the Register is followed for
IntBits == 10         \* width of the machine's int, scaled down from 64

Workers == {"w1", "w2"}
Jobs == {"j1", "j2"}
None == [absent |-> TRUE]    \* no job, no plan, no ExecuteInfo
NoJob == "none"
NoTime == -1

\* cron expressions: every second, every third second, and one that
\* cronexpr.Parse rejects
EverySecond == "* * * * * *"
EveryThreeSeconds == "*/3 * * * * *"
BadExpr == "not a cron"
CronExprs == {EverySecond, EveryThreeSeconds, BadExpr}

VARIABLES
    now,            \* wall clock, seconds
    lockKey,        \* etcd: /cron/lock/<job> -> lease the key is attached to, 0 = no key
    leases,         \* etcd: the set of live lease ids
    jl,             \* per worker: its current JobLock object
    lockErr,        \* per worker: what the last TryLock returned
    kvJobs,         \* etcd: /cron/jobs/<name> -> Job or None
    watchChan,      \* per worker: watch deltas not yet received
    jobsCache,      \* per worker: JobManager.jobsCache
    eventChan,      \* per worker: JobManager.eventChan
    jobPlans,       \* per worker: Scheduler.jobPlans
    jobExecuting,   \* per worker: Scheduler.jobExecuting
    pc,             \* per worker: where the scheduler loop is
    tick,           \* per worker: the trySchedule call in progress
    running,        \* executor tasks whose command has not produced its result yet
    jobResults,     \* per worker: Executor.jobResults
    appended,       \* per worker: the JobLogs LogSink.Append was called with
    dispatched,     \* history: every ExecuteJob call, as [worker, job, fire]
    lwt,            \* per worker: the LockWithTimeout call on its JobLock
    killErr,        \* per worker: what the last Scheduler.KillJob returned
    logChan,        \* LogSink.logChan
    logBatch,       \* LogSink.logBatch
    store,          \* the batches handed to the store's InsertMany, in order
    commitTimer,    \* LogSink.commitTimer: armed, or fired and not yet received
    collection,     \* MongoDB: the documents of the log collection
    lastClean,      \* master: the last CleanExpiredLogs call and what it returned
    query,          \* master: the last ListLogs call, its store query and its results
    reply,          \* master: the last JobManager call that returned, and its results
    rmw,            \* master: the DisableJob or EnableJob call between its read and its write
    heartbeat,      \* worker Register: its configuration, its loop and its next tick
    workerKey,      \* etcd: the lease /cron/workers/<id> is attached to, 0 = no key
    workerLeases,   \* etcd: the leases granted to the Register, with their expiry
    ctx,            \* per worker: Scheduler.ctx, live or cancelled
    access,         \* per worker: the accesses to the scheduler's tables in progress
    commit          \* LogSink: the commitLogs calls in progress, by calling task

etcdVars == <<lockKey, leases>>
lockVars == <<jl, lockErr>>
watchVars == <<kvJobs, watchChan, jobsCache, eventChan>>
schedVars == <<jobPlans, jobExecuting, pc, tick>>
execVars == <<running, jobResults, appended, dispatched>>
logVars == <<collection, lastClean, query>>
jobApiVars == <<reply, rmw>>
regVars == <<heartbeat, workerKey, workerLeases>>
masterVars == <<logVars, jobApiVars, regVars>>
taskVars == <<ctx, access, commit>>
apiVars == <<lwt, killErr, masterVars, taskVars>>
sinkVars == <<logChan, logBatch, store, commitTimer>>
vars == <<now, lockKey, leases, jl, lockErr, kvJobs, watchChan, jobsCache,
          eventChan, jobPlans, jobExecuting, pc, tick, running, jobResults,
          appended, dispatched, lwt, killErr, logChan, logBatch, store, commitTimer,
          collection, lastClean, query, reply, rmw, heartbeat, workerKey, workerLeases,
          ctx, access, commit>>

\* ------------------------------------------------------------ cron, jobs
\* cronexpr.Parse: the period of the expression in seconds, 0 when it does
\* not parse
Parse(expr) ==
    CASE expr = EverySecond -> 1
      [] expr = EveryThreeSeconds -> 3
      [] OTHER -> 0

\* Expression.Next(t): the first fire time strictly after t
ExprNext(period, t) == ((t \div period) + 1) * period

Job(name, expr, disabled) ==
    [Name |-> name, CronExpr |-> expr, Disabled |-> disabled]

JobSchedulePlan(job, t) ==
    [Job |-> job, Expr |-> Parse(job.CronExpr),
     NextTime |-> ExprNext(Parse(job.CronExpr), t)]

\* ---------------------------------------------------------- etcd client
LeaseIds == 1 .. MaxLease

\* a lease id etcd has not handed out to anything still referring to it
FreeLeases == {id \in LeaseIds : id \notin leases /\ \A w \in Workers : jl[w].leaseID # id}
FreshLease == CHOOSE id \in FreeLeases : \A other \in FreeLeases : id <= other

\* lease.Revoke, and lease expiry: the lease goes and takes its keys along
DropLease(id) ==
    /\ leases' = leases \ {id}
    /\ lockKey' = [k \in Jobs |-> IF lockKey[k] = id THEN 0 ELSE lockKey[k]]

\* the transaction's If: CreateRevision(lockKey) = 0
TxnSucceededMut(key) == TRUE
TxnSucceeded(key) == lockKey[key] = 0

\* Client.TryAcquireLock: grant a lease, then put the key under it if the
\* key does not exist; the lease stays granted when the transaction fails
TryAcquireLock(key, id) ==
    /\ leases' = leases \cup {id}
    /\ lockKey' = IF TxnSucceeded(key) THEN [lockKey EXCEPT ![key] = id] ELSE lockKey

\* Client.ReleaseLock: the lease is revoked; the key argument is only used
\* in the error text
ReleaseLockMut(key, id) ==
    /\ leases' = leases \ {id}
    /\ lockKey' = [k \in Jobs |-> IF k = key \/ lockKey[k] = id THEN 0 ELSE lockKey[k]]
ReleaseLock(key, id) == DropLease(id)

\* Client.PutWithLease on a lock key: grant a lease and put the key under
\* it, whatever the key was attached to before
PutWithLease(key, id) ==
    /\ leases' = leases \cup {id}
    /\ lockKey' = [lockKey EXCEPT ![key] = id]

\* ------------------------------------------------------------- JobLock
NewJobLock(jobName) ==
    [jobName |-> jobName, leaseID |-> 0, isLocked |-> FALSE, keepAlive |-> "none"]

\* JobLock.TryLock: the lock object after the call, given the lease id
\* TryAcquireLock was granted
TryLockResult(l, id) ==
    IF TxnSucceeded(l.jobName)
    THEN [l EXCEPT !.leaseID = id, !.isLocked = TRUE, !.keepAlive = "running"]
    ELSE l

TryLockErr(l) ==
    IF TxnSucceeded(l.jobName) THEN "nil" ELSE "ErrLockAlreadyAcquired"

\* JobLock.Unlock: the lock object after the call
UnlockResult(l) ==
    IF l.isLocked
    THEN [l EXCEPT !.leaseID = 0, !.isLocked = FALSE, !.keepAlive = "stopped"]
    ELSE l

\* JobLock.Unlock: what the call does to etcd
UnlockEtcd(l) ==
    IF l.isLocked THEN ReleaseLock(l.jobName, l.leaseID) ELSE UNCHANGED etcdVars

\* the worker process that owns the JobLock is gone
Crashed(w) == jl[w].keepAlive = "crashed"

\* a lease nobody renews: no running keepAlive task reads its stream
RenewedMut(id) == \E w \in Workers : jl[w].isLocked /\ jl[w].leaseID = id
Renewed(id) == \E w \in Workers : jl[w].keepAlive = "running" /\ jl[w].leaseID = id


\* ----------------------------------------------- initial values, by part
InitEtcd ==
    /\ lockKey = [k \in Jobs |-> 0]
    /\ leases = {}

InitLocks ==
    /\ jl = [w \in Workers |-> NewJobLock("j1")]
    /\ lockErr = [w \in Workers |-> "none"]

NoTick == [now |-> 0, due |-> {}, cur |-> NoJob,
           snap |-> [j \in Jobs |-> NoTime], calls |-> [j \in Jobs |-> 0]]

InitIdleScheduler ==
    /\ jobPlans = [w \in Workers |-> [j \in Jobs |-> None]]
    /\ jobExecuting = [w \in Workers |-> [j \in Jobs |-> None]]
    /\ pc = [w \in Workers |-> "select"]
    /\ tick = [w \in Workers |-> NoTick]

InitExecutor ==
    /\ running = {}
    /\ jobResults = [w \in Workers |-> <<>>]
    /\ appended = [w \in Workers |-> {}]
    /\ dispatched = {}

NoClean == [err |-> "none", before |-> 0, deletedCount |-> 0]

NoQuery == [page |-> 0, pageSize |-> 0, skip |-> 0, limit |-> 0,
            err |-> "none", logs |-> 0]

InitLogs ==
    /\ collection = {}
    /\ lastClean = NoClean
    /\ query = NoQuery

NoReply == [op |-> "none", name |-> "", err |-> "none", job |-> None]

InitJobApi ==
    /\ reply = NoReply
    /\ rmw = None

\* NewRegister, with the default HeartbeatInterval
InitRegister ==
    /\ heartbeat = [interval |-> 5000, loop |-> "off", nextTick |-> 0,
                    failed |-> FALSE, granted |-> 0]
    /\ workerKey = 0
    /\ workerLeases = {}

InitMaster == InitLogs /\ InitJobApi /\ InitRegister

\* the workers' state outside the watch of the job definitions
idleVars == <<lwt, killErr, taskVars, sinkVars, etcdVars, lockVars, schedVars, execVars>>

\* nothing has been stopped and no call is under way
NoAccess == [loop |-> None, results |-> None, kill |-> None, fatal |-> FALSE]

\* a task that is not inside commitLogs
NoCommit == [at |-> "idle", logs |-> <<>>, by |-> "none"]

InitTasks ==
    /\ ctx = [w \in Workers |-> "live"]
    /\ access = [w \in Workers |-> NoAccess]
    /\ commit = [worker |-> NoCommit, stop |-> NoCommit]

InitApi ==
    /\ lwt = [w \in Workers |-> "idle"]
    /\ killErr = [w \in Workers |-> "none"]
    /\ InitMaster
    /\ InitTasks

InitSink ==
    /\ logChan = <<>>
    /\ logBatch = <<>>
    /\ store = <<>>
    /\ commitTimer = "armed"

InitNoJobs ==
    /\ kvJobs = [j \in Jobs |-> None]
    /\ watchChan = [w \in Workers |-> <<>>]
    /\ jobsCache = [w \in Workers |-> [j \in Jobs |-> None]]
    /\ eventChan = [w \in Workers |-> <<>>]

\* ------------------------------------------- the JobLock API, called freely
\* (one call at a time on a JobLock: none while LockWithTimeout is waiting)
\* a worker makes a new JobLock for a job (the previous one is dropped once
\* it is neither held nor renewing)
LockNew(w, j) ==
    /\ ~Crashed(w)
    /\ ~jl[w].isLocked
    /\ jl[w].keepAlive # "running"
    /\ jl[w] # NewJobLock(j)
    /\ lwt[w] \in {"idle", "returned"}
    /\ jl' = [jl EXCEPT ![w] = NewJobLock(j)]
    /\ lockErr' = [lockErr EXCEPT ![w] = "none"]
    /\ lwt' = [lwt EXCEPT ![w] = "idle"]
    /\ UNCHANGED <<now, killErr, masterVars, taskVars, sinkVars, etcdVars, watchVars, schedVars, execVars>>

LockTryLock(w) ==
    /\ ~Crashed(w)
    /\ lwt[w] # "waiting"
    /\ jl[w].keepAlive = "none"
    /\ FreeLeases # {}
    /\ TryAcquireLock(jl[w].jobName, FreshLease)
    /\ jl' = [jl EXCEPT ![w] = TryLockResult(@, FreshLease)]
    /\ lockErr' = [lockErr EXCEPT ![w] = TryLockErr(jl[w])]
    /\ UNCHANGED <<now, apiVars, sinkVars, watchVars, schedVars, execVars>>

LockUnlock(w) ==
    /\ ~Crashed(w)
    /\ lwt[w] # "waiting"
    /\ UnlockEtcd(jl[w])
    /\ jl' = [jl EXCEPT ![w] = UnlockResult(@)]
    /\ UNCHANGED <<now, apiVars, sinkVars, lockErr, watchVars, schedVars, execVars>>

\* the keepAlive task finds its stream closed: the lease is gone
KeepAliveClosed(w) ==
    /\ jl[w].keepAlive = "running"
    /\ jl[w].leaseID \notin leases
    /\ jl' = [jl EXCEPT ![w] = [@ EXCEPT !.isLocked = FALSE, !.keepAlive = "stopped"]]
    /\ UNCHANGED <<now, apiVars, sinkVars, etcdVars, lockErr, watchVars, schedVars, execVars>>

\* the worker process dies while the lease of its JobLock owns the lock
\* key: the keepAlive task is gone with it, and nothing revokes the lease
Crash(w) ==
    /\ jl[w].isLocked /\ jl[w].keepAlive = "running"
    /\ lockKey[jl[w].jobName] = jl[w].leaseID
    /\ lwt[w] # "waiting"
    /\ jl' = [jl EXCEPT ![w].keepAlive = "crashed"]
    /\ UNCHANGED <<now, apiVars, sinkVars, etcdVars, lockErr, watchVars, schedVars, execVars>>

\* LockWithTimeout starts the task that calls TryLock and waits for it
LockWithTimeoutCall(w) ==
    /\ ~Crashed(w)
    /\ lwt[w] = "idle"
    /\ jl[w].keepAlive = "none"
    /\ lwt' = [lwt EXCEPT ![w] = "waiting"]
    /\ UNCHANGED <<now, killErr, masterVars, taskVars, sinkVars, etcdVars, lockVars, watchVars, schedVars, execVars>>

\* the timeout context of LockWithTimeout is done first: the call returns
\* the timeout error and leaves its task behind
LockWithTimeoutExpires(w) ==
    /\ ~Crashed(w)
    /\ lwt[w] = "waiting"
    /\ lwt' = [lwt EXCEPT ![w] = "abandoned"]
    /\ lockErr' = [lockErr EXCEPT ![w] = "timeout"]
    /\ UNCHANGED <<now, killErr, masterVars, taskVars, sinkVars, etcdVars, jl, watchVars, schedVars, execVars>>

\* the task of LockWithTimeout runs TryLock; its result is returned by the
\* call if the call still waits, and stays unread in done otherwise
LockWithTimeoutTryLock(w) ==
    /\ ~Crashed(w)
    /\ lwt[w] \in {"waiting", "abandoned"}
    /\ FreeLeases # {}
    /\ TryAcquireLock(jl[w].jobName, FreshLease)
    /\ jl' = [jl EXCEPT ![w] = TryLockResult(@, FreshLease)]
    /\ lockErr' = [lockErr EXCEPT ![w] = IF lwt[w] = "waiting" THEN TryLockErr(jl[w]) ELSE @]
    /\ lwt' = [lwt EXCEPT ![w] = "returned"]
    /\ UNCHANGED <<now, killErr, masterVars, taskVars, sinkVars, watchVars, schedVars, execVars>>

\* etcd expires a lease whose TTL ran out: always possible for a lease
\* nobody renews, and for a renewed one when the renewals do not arrive
LeaseExpire(id) ==
    /\ id \in leases
    /\ DropLease(id)
    /\ UNCHANGED <<now, apiVars, sinkVars, lockVars, watchVars, schedVars, execVars>>

\* master JobManager.KillJob: the kill marker is put on the job's lock key
MasterKillJob(j) ==
    /\ FreeLeases # {}
    /\ PutWithLease(j, FreshLease)
    /\ UNCHANGED <<now, apiVars, sinkVars, lockVars, watchVars, schedVars, execVars>>

InitLock ==
    /\ now = 0
    /\ InitEtcd /\ InitLocks /\ InitNoJobs /\ InitIdleScheduler /\ InitExecutor
    /\ InitApi /\ InitSink

NextLock ==
    \/ \E w \in Workers, j \in Jobs : LockNew(w, j)
    \/ \E w \in Workers : LockTryLock(w)
    \/ \E w \in Workers : LockUnlock(w)
    \/ \E w \in Workers : KeepAliveClosed(w)
    \/ \E w \in Workers : LockWithTimeoutCall(w)
    \/ \E w \in Workers : LockWithTimeoutExpires(w)
    \/ \E w \in Workers : LockWithTimeoutTryLock(w)
    \/ \E id \in LeaseIds : LeaseExpire(id)
    \/ \E j \in Jobs : MasterKillJob(j)

SpecLock == InitLock /\ [][NextLock]_vars

\* a lease nobody renews runs out
UnrenewedLeaseExpire(id) == ~Renewed(id) /\ LeaseExpire(id)

\* TryLock and Unlock with workers that can crash; etcd expires every
\* lease that is not renewed
NextCrash ==
    \/ \E w \in Workers, j \in Jobs : LockNew(w, j)
    \/ \E w \in Workers : LockTryLock(w)
    \/ \E w \in Workers : LockUnlock(w)
    \/ \E w \in Workers : KeepAliveClosed(w)
    \/ \E w \in Workers : Crash(w)
    \/ \E id \in LeaseIds : LeaseExpire(id)
    \/ \E j \in Jobs : MasterKillJob(j)

SpecCrash ==
    /\ InitLock /\ [][NextCrash]_vars
    /\ \A id \in LeaseIds : WF_vars(UnrenewedLeaseExpire(id))

\* a JobLock is held: TryLock succeeded, no Unlock since, lease not lost
Held(w) == jl[w].isLocked /\ jl[w].leaseID \in leases

\* C3: for each job at most one JobLock is held at a time
C3_AtMostOneHolder ==
    \A w1 \in Workers, w2 \in Workers :
        (Held(w1) /\ Held(w2) /\ jl[w1].jobName = jl[w2].jobName) => w1 = w2

\* ------------------------------------------------------------ scheduler
\* Scheduler.loadJobs: a plan for every cached job that is enabled and
\* whose expression parses
LoadJobs(cache, t) ==
    [j \in Jobs |->
        IF cache[j] # None /\ ~cache[j].Disabled /\ Parse(cache[j].CronExpr) # 0
        THEN JobSchedulePlan(cache[j], t)
        ELSE None]

\* the plans trySchedule finds due at time t
Due(w, t) == {j \in Jobs : jobPlans[w][j] # None /\ jobPlans[w][j].NextTime <= t}

JobExecuteInfo(plan, t) ==
    [Job |-> plan.Job, PlanTime |-> plan.NextTime, RealTime |-> t]

\* the executor task started by ExecuteJob(info) on worker w
Execution(w, info) == [worker |-> w, job |-> info.Job.Name, PlanTime |-> info.PlanTime]

\* the time trySchedule computes the next fire from
AdvanceFromMut(w, j) == jobPlans[w][j].NextTime
AdvanceFrom(w, j) == tick[w].now

\* the loop body of trySchedule is done with plan j: NextTime is advanced;
\* the loop is over when no due plan is left (called: 1 when this step is
\* also the call of tryStartJob)
PlanDone(w, j, called) ==
    /\ jobPlans' = [jobPlans EXCEPT ![w][j].NextTime =
                        ExprNext(jobPlans[w][j].Expr, AdvanceFrom(w, j))]
    /\ tick' = [tick EXCEPT ![w].due = @ \ {j}, ![w].cur = NoJob,
                            ![w].calls[j] = @ + called]
    /\ pc' = [pc EXCEPT ![w] = IF tick[w].due = {j} THEN "return" ELSE "schedule"]

\* the 100 ms ticker fires and the loop enters trySchedule
TrySchedule(w) ==
    /\ pc[w] = "select"
    /\ IF Due(w, now) = {}
       THEN UNCHANGED <<pc, tick>>
       ELSE /\ pc' = [pc EXCEPT ![w] = "schedule"]
            /\ tick' = [tick EXCEPT ![w] =
                   [now |-> now, due |-> Due(w, now), cur |-> NoJob,
                    snap |-> [j \in Jobs |-> IF jobPlans[w][j] = None THEN NoTime
                                             ELSE jobPlans[w][j].NextTime],
                    calls |-> [j \in Jobs |-> 0]]]
    /\ UNCHANGED <<now, apiVars, sinkVars, etcdVars, lockVars, watchVars, jobPlans, jobExecuting, execVars>>

\* the local guard of tryStartJob
AlreadyExecutingMut(w, j) == FALSE
AlreadyExecuting(w, j) == jobExecuting[w][j] # None

\* tryStartJob up to the return of TryLock, for a due plan j
TryStartJob(w, j) ==
    /\ pc[w] = "schedule"
    /\ j \in tick[w].due
    /\ IF AlreadyExecuting(w, j)
       THEN /\ PlanDone(w, j, 1)
            /\ UNCHANGED <<etcdVars, lockVars>>
       ELSE /\ FreeLeases # {}
            /\ TryAcquireLock(j, FreshLease)
            /\ jl' = [jl EXCEPT ![w] = TryLockResult(NewJobLock(j), FreshLease)]
            /\ lockErr' = [lockErr EXCEPT ![w] = TryLockErr(NewJobLock(j))]
            /\ IF TxnSucceeded(j)
               THEN /\ pc' = [pc EXCEPT ![w] = "dispatch"]
                    /\ tick' = [tick EXCEPT ![w].cur = j, ![w].calls[j] = @ + 1]
                    /\ UNCHANGED jobPlans
               ELSE PlanDone(w, j, 1)
    /\ UNCHANGED <<now, apiVars, sinkVars, watchVars, jobExecuting, execVars>>

\* tryStartJob saves the ExecuteInfo: s.jobExecuting[name] = info
StoreExecutingMut(w, j, info) == jobExecuting
StoreExecuting(w, j, info) == [jobExecuting EXCEPT ![w][j] = info]

\* the rest of tryStartJob once the lock is won: the ExecuteInfo goes into
\* the in-flight table, the executor starts the command, the lock is
\* released; then trySchedule advances the plan
DispatchJob(w) ==
    LET j == tick[w].cur
        info == JobExecuteInfo(jobPlans[w][j], now)
    IN  /\ pc[w] = "dispatch"
        /\ jobExecuting' = StoreExecuting(w, j, info)
        /\ running' = running \cup {Execution(w, info)}
        /\ dispatched' = dispatched \cup {[worker |-> w, job |-> j, fire |-> info.PlanTime]}
        /\ UnlockEtcd(jl[w])
        /\ jl' = [jl EXCEPT ![w] = UnlockResult(@)]
        /\ PlanDone(w, j, 0)
        /\ UNCHANGED <<now, apiVars, sinkVars, lockErr, watchVars, jobResults, appended>>

\* ExecuteJob's task: the command ends and the result is sent on the result
\* channel; the send waits while the channel is full
JobExecuteResult(e) == [JobName |-> e.job, PlanTime |-> e.PlanTime]

ExecuteJobEnds(e) ==
    /\ e \in running
    /\ Len(jobResults[e.worker]) < ResultChanCap
    /\ running' = running \ {e}
    /\ jobResults' = [jobResults EXCEPT ![e.worker] = Append(@, JobExecuteResult(e))]
    /\ UNCHANGED <<now, apiVars, sinkVars, etcdVars, lockVars, watchVars, schedVars, appended, dispatched>>

\* scheduleLoop receives a result: handleJobResult
HandleJobResult(w) ==
    /\ pc[w] = "select"
    /\ jobResults[w] # <<>>
    /\ jobExecuting' = [jobExecuting EXCEPT ![w][Head(jobResults[w]).JobName] = None]
    /\ jobResults' = [jobResults EXCEPT ![w] = Tail(@)]
    /\ UNCHANGED <<now, apiVars, sinkVars, etcdVars, lockVars, watchVars, jobPlans, pc, tick,
                   running, appended, dispatched>>

\* executor.BuildJobLog
BuildJobLogMut(result, info) ==
    [JobName |-> result.JobName, PlanTime |-> info.RealTime,
     ScheduleTime |-> info.PlanTime, resultOf |-> result.PlanTime]
BuildJobLog(result, info) ==
    [JobName |-> result.JobName, PlanTime |-> info.PlanTime,
     ScheduleTime |-> info.RealTime, resultOf |-> result.PlanTime]

\* main.handleExecuteResults receives a result from the same channel
HandleExecuteResults(w) ==
    LET result == Head(jobResults[w])
        info == jobExecuting[w][result.JobName]
    IN  /\ jobResults[w] # <<>>
        /\ jobResults' = [jobResults EXCEPT ![w] = Tail(@)]
        /\ appended' = IF info # None
                       THEN [appended EXCEPT ![w] = @ \cup {BuildJobLog(result, info)}]
                       ELSE appended
        /\ UNCHANGED <<now, apiVars, sinkVars, etcdVars, lockVars, watchVars, schedVars, running, dispatched>>

AdvanceTime ==
    /\ now < MaxTime
    /\ now' = now + 1
    /\ UNCHANGED <<apiVars, sinkVars, etcdVars, lockVars, watchVars, schedVars, execVars>>

\* trySchedule returns to the select of scheduleLoop
TryScheduleReturn(w) ==
    /\ pc[w] = "return"
    /\ pc' = [pc EXCEPT ![w] = "select"]
    /\ tick' = [tick EXCEPT ![w] = NoTick]
    /\ UNCHANGED <<now, apiVars, sinkVars, etcdVars, lockVars, watchVars, jobPlans, jobExecuting, execVars>>

\* job definitions in the store
StoredJob(j) == Job(j, IF j = "j1" THEN EverySecond ELSE EveryThreeSeconds, FALSE)

\* the state after NewJobManager, NewScheduler and Scheduler.Start on the
\* workers in started, with the definitions in stored in etcd
InitCluster(stored, started) ==
    /\ now \in 0 .. MaxTime
    /\ InitEtcd /\ InitLocks /\ InitExecutor /\ InitApi /\ InitSink
    /\ kvJobs = stored
    /\ watchChan = [w \in Workers |-> <<>>]
    /\ jobsCache = [w \in Workers |-> IF w \in started THEN stored ELSE [j \in Jobs |-> None]]
    /\ eventChan = [w \in Workers |-> <<>>]
    /\ jobPlans = [w \in Workers |-> IF w \in started THEN LoadJobs(stored, now)
                                     ELSE [j \in Jobs |-> None]]
    /\ jobExecuting = [w \in Workers |-> [j \in Jobs |-> None]]
    /\ pc = [w \in Workers |-> IF w \in started THEN "select" ELSE "off"]
    /\ tick = [w \in Workers |-> NoTick]

\* two workers started on one stored job
Init == now = 0 /\ InitCluster([j \in Jobs |-> IF j = "j1" THEN StoredJob(j) ELSE None], Workers)

\* one worker started on two stored jobs
InitTick == now = 0 /\ InitCluster([j \in Jobs |-> StoredJob(j)], {"w1"})

Next ==
    \/ AdvanceTime
    \/ \E w \in Workers : TrySchedule(w)
    \/ \E w \in Workers, j \in Jobs : TryStartJob(w, j)
    \/ \E w \in Workers : DispatchJob(w)
    \/ \E w \in Workers : TryScheduleReturn(w)
    \/ \E e \in running : ExecuteJobEnds(e)
    \/ \E w \in Workers : HandleJobResult(w)
    \/ \E w \in Workers : HandleExecuteResults(w)
    \/ \E id \in LeaseIds : UnrenewedLeaseExpire(id)

Spec == Init /\ [][Next]_vars

\* one scheduler, with the master publishing kill markers on the lock keys
NextTick ==
    \/ Next
    \/ \E j \in Jobs : MasterKillJob(j)

SpecTick == InitTick /\ [][NextTick]_vars

\* one iteration of scheduleLoop on worker w
ScheduleLoop(w) ==
    \/ TrySchedule(w)
    \/ \E j \in Jobs : TryStartJob(w, j)
    \/ DispatchJob(w)
    \/ TryScheduleReturn(w)
    \/ HandleJobResult(w)

\* the worker as cmd/worker starts it, on one stored job, with the master
\* publishing kill markers: the scheduler loop and the result handler keep
\* running, time passes and unrenewed leases expire; only the command of an
\* execution may take for ever
InitKill == now = 0 /\ InitCluster([j \in Jobs |-> IF j = "j1" THEN StoredJob(j) ELSE None], {"w1"})

SpecKill ==
    /\ InitKill /\ [][NextTick]_vars
    /\ WF_vars(AdvanceTime)
    /\ \A w \in Workers : WF_vars(ScheduleLoop(w)) /\ WF_vars(HandleExecuteResults(w))
    /\ \A id \in LeaseIds : WF_vars(UnrenewedLeaseExpire(id))


\* ------------------------------------------------ dispatch and execution
\* the executions of job j that worker w has started and whose result
\* nobody has received yet
Unfinished(w, j) == {e \in running : e.worker = w /\ e.job = j}
PendingResults(w, j) ==
    {i \in 1 .. Len(jobResults[w]) : jobResults[w][i].JobName = j}

\* the execution started by dispatch d is over and its result has been
\* taken off the result channel
ResultReceived(d) ==
    /\ [worker |-> d.worker, job |-> d.job, PlanTime |-> d.fire] \notin running
    /\ \A i \in 1 .. Len(jobResults[d.worker]) :
           jobResults[d.worker][i] # [JobName |-> d.job, PlanTime |-> d.fire]

\* C1: a fire instant of a job is dispatched by at most one worker
C1_OneDispatchPerFire ==
    \A d1 \in dispatched, d2 \in dispatched :
        (d1.job = d2.job /\ d1.fire = d2.fire) => d1.worker = d2.worker

\* C2 as stated: at most one execution of a job is running in the cluster
C2_OneRunningPerCluster ==
    \A e1 \in running, e2 \in running : e1.job = e2.job => e1 = e2

\* C2 amended: at most one execution of a job is running on each worker
C2_OneRunningPerWorker ==
    \A e1 \in running, e2 \in running :
        (e1.job = e2.job /\ e1.worker = e2.worker) => e1 = e2

\* a worker runs a job that it has already run before, at an earlier fire
C2_Witness ==
    \E e \in running, d \in dispatched :
        d.worker = e.worker /\ d.job = e.job /\ d.fire < e.PlanTime

\* C4: every result the executor emitted and somebody received has a JobLog
\* handed to LogSink.Append
C4_EveryResultLogged ==
    \A d \in dispatched :
        ResultReceived(d) =>
            \E log \in appended[d.worker] : log.JobName = d.job /\ log.resultOf = d.fire

\* C5: an in-flight entry is there only while its execution is running or
\* its result still waits on the result channel for the scheduler
C5_EntryLeavesWithResult ==
    \A w \in Workers, j \in Jobs :
        jobExecuting[w][j] # None =>
            ~ResultReceived([worker |-> w, job |-> j, fire |-> jobExecuting[w][j].PlanTime])

\* C7: the step that starts an execution of j on w finds no entry for j in
\* w's in-flight table, and an execution or result pending for j has one
C7_NoDispatchWhileInFlight ==
    [][\A w \in Workers, j \in Jobs :
          (\E e \in running' \ running : e.worker = w /\ e.job = j) =>
              /\ jobExecuting[w][j] = None
              /\ Unfinished(w, j) = {} /\ PendingResults(w, j) = {}
              /\ jobExecuting'[w][j] # None]_vars

\* w starts j again after the scheduler handled the result of an earlier run
C7_Witness ==
    \E w \in Workers, j \in Jobs, d \in dispatched :
        /\ jobExecuting[w][j] # None
        /\ Unfinished(w, j) # {}
        /\ d.worker = w /\ d.job = j /\ d.fire < jobExecuting[w][j].PlanTime

\* C8: when trySchedule returns, every plan that was due has been handed to
\* tryStartJob once and is now due after the tick's time; the others are as
\* they were
C8_TickAdvancesDuePlans ==
    \A w \in Workers :
        pc[w] = "return" =>
            \A j \in Jobs :
                LET was == tick[w].snap[j] IN
                IF was # NoTime /\ was <= tick[w].now
                THEN /\ tick[w].calls[j] = 1
                     /\ jobPlans[w][j].NextTime > tick[w].now
                ELSE /\ tick[w].calls[j] = 0
                     /\ was = NoTime => jobPlans[w][j] = None
                     /\ was # NoTime => jobPlans[w][j].NextTime = was

\* trySchedule returns from a tick that found one plan two fire times late
\* and another plan not due
C8_Witness ==
    \E w \in Workers, j \in Jobs, k \in Jobs :
        /\ pc[w] = "return"
        /\ tick[w].snap[j] # NoTime /\ tick[w].snap[j] + 1 <= tick[w].now
        /\ tick[w].snap[k] > tick[w].now


\* ------------------------------------------------------- kill requests
\* the kill marker of job j is in etcd: its key is attached to a lease that
\* is not the lease of a JobLock
KillMarker(j) == lockKey[j] # 0 /\ \A w \in Workers : jl[w].leaseID # lockKey[j]

\* C14: an execution that is running when the kill marker of its job is
\* published is ended by the worker, whatever its command does
C14_KillMarkerEndsExecution ==
    \A e \in [worker : Workers, job : Jobs, PlanTime : 0 .. MaxTime + 1] :
        (e \in running /\ KillMarker(e.job)) ~> (e \notin running)

\* C15: publishing the kill marker of j leaves a lock key of j that a JobLock
\* holds attached to the holder's lease, and a TryLock that meets only the
\* kill marker succeeds
C15_KillLeavesLocksAlone ==
    [][/\ \A j \in Jobs, w \in Workers :
             (MasterKillJob(j) /\ Held(w) /\ jl[w].jobName = j /\ lockKey[j] = jl[w].leaseID)
                 => lockKey'[j] = jl[w].leaseID
       /\ \A w \in Workers :
             (LockTryLock(w) /\ KillMarker(jl[w].jobName))
                 => (lockErr'[w] = "nil" /\ jl'[w].isLocked)]_vars

\* ------------------------------------------------- locks: claims C9, C10
\* C9: TryLock on a key that exists returns ErrLockAlreadyAcquired and
\* leaves the JobLock unlocked, without lease and without renewal task,
\* and the key with the lease that owns it
C9_FailedTryLockChangesNothing ==
    [][\A w \in Workers :
          (LockTryLock(w) /\ lockKey[jl[w].jobName] # 0) =>
              /\ lockErr'[w] = "ErrLockAlreadyAcquired"
              /\ jl'[w] = jl[w]
              /\ ~jl'[w].isLocked /\ jl'[w].leaseID = 0 /\ jl'[w].keepAlive = "none"
              /\ lockKey' = lockKey
              /\ lockKey[jl[w].jobName] \in leases']_vars

\* a TryLock has failed against a lock another JobLock holds
C9_Witness ==
    \E w \in Workers, h \in Workers :
        /\ w # h /\ Held(h) /\ jl[h].jobName = jl[w].jobName
        /\ lockKey[jl[h].jobName] = jl[h].leaseID
        /\ lockErr[w] = "ErrLockAlreadyAcquired"
        /\ ~jl[w].isLocked /\ jl[w].leaseID = 0

\* C10: Unlock by the holder removes the lock key and clears IsLocked, so
\* that the next TryLock finds the key absent
C10_UnlockFreesKey ==
    [][\A w \in Workers :
          (LockUnlock(w) /\ Held(w)) =>
              /\ lockKey'[jl[w].jobName] = 0
              /\ ~jl'[w].isLocked]_vars

\* C11: Unlock on a JobLock that is not locked changes nothing; Unlock on one
\* whose lease is gone changes nothing in etcd; and no Unlock removes a lease
\* other than the JobLock's own or a key attached to another lease
C11_UnlockIdempotent ==
    [][\A w \in Workers :
          LockUnlock(w) =>
              /\ ~jl[w].isLocked => (jl' = jl /\ lockKey' = lockKey /\ leases' = leases)
              /\ jl[w].leaseID \notin leases => (lockKey' = lockKey /\ leases' = leases)
              /\ leases \ leases' \subseteq {jl[w].leaseID}
              /\ \A k \in Jobs : lockKey[k] # jl[w].leaseID => lockKey'[k] = lockKey[k]
              /\ ~jl'[w].isLocked]_vars

\* a JobLock has been unlocked while another JobLock, which acquired the
\* key under a later lease, holds the same job
C11_Witness ==
    \E w \in Workers, h \in Workers :
        /\ w # h /\ jl[w].jobName = jl[h].jobName
        /\ jl[w].keepAlive = "stopped" /\ ~jl[w].isLocked /\ jl[w].leaseID = 0
        /\ Held(h) /\ lockKey[jl[h].jobName] = jl[h].leaseID /\ jl[h].leaseID > 1

\* C13: a lock key owned by the lease of a crashed worker goes away, and a
\* TryLock that finds the key absent acquires it
C13_CrashedHolderFreesKey ==
    /\ \A w \in Workers, j \in Jobs :
           (Crashed(w) /\ lockKey[j] # 0 /\ lockKey[j] = jl[w].leaseID)
               ~> (lockKey[j] # jl[w].leaseID)
    /\ [][\A h \in Workers :
             (LockTryLock(h) /\ lockKey[jl[h].jobName] = 0) =>
                 /\ jl'[h].isLocked /\ lockErr'[h] = "nil"
                 /\ lockKey'[jl[h].jobName] = jl'[h].leaseID
                 /\ jl'[h].leaseID \in leases']_vars

\* another worker holds the lock of the job a crashed worker held
C13_Witness ==
    \E w \in Workers, h \in Workers :
        /\ Crashed(w) /\ jl[w].jobName = jl[h].jobName
        /\ jl[w].leaseID \notin leases
        /\ Held(h) /\ ~Crashed(h) /\ lockKey[jl[h].jobName] = jl[h].leaseID

\* LockWithTimeout has returned an error to its caller
LockWithTimeoutFailed(w) ==
    /\ lwt[w] \in {"abandoned", "returned"}
    /\ lockErr[w] \in {"timeout", "ErrLockAlreadyAcquired"}

\* C12: once LockWithTimeout has returned an error, the JobLock is not
\* locked and no lock key is attached to a lease of this JobLock
C12_ErrorMeansNotHeld ==
    \A w \in Workers :
        LockWithTimeoutFailed(w) =>
            /\ ~jl[w].isLocked
            /\ \A k \in Jobs : lockKey[k] = 0 \/ lockKey[k] # jl[w].leaseID

\* ------------------------------------------ job definitions and the watch
\* the worker's watch is open (pc "off": no JobManager yet; "loaded": its
\* prefix scan is done and its watch is not open yet)
Started(w) == pc[w] \notin {"off", "loaded"}

WatchEvent(type, key, value) == [Type |-> type, Key |-> key, Value |-> value]

\* etcd hands a change under /cron/jobs/ to the watch of every started worker
Notify(ev) ==
    /\ \A w \in Workers : Started(w) => Len(watchChan[w]) < MaxWatch
    /\ watchChan' = [w \in Workers |->
                        IF Started(w) THEN Append(watchChan[w], ev) ELSE watchChan[w]]

\* master JobManager.SaveJob
MasterSaveJob(job) ==
    /\ kvJobs' = [kvJobs EXCEPT ![job.Name] = job]
    /\ Notify(WatchEvent("PUT", job.Name, job))
    /\ UNCHANGED <<now, apiVars, sinkVars, etcdVars, lockVars, jobsCache, eventChan, schedVars, execVars>>

\* master JobManager.DeleteJob of a stored job
MasterDeleteJob(name) ==
    /\ kvJobs[name] # None
    /\ kvJobs' = [kvJobs EXCEPT ![name] = None]
    /\ Notify(WatchEvent("DELETE", name, None))
    /\ UNCHANGED <<now, apiVars, sinkVars, etcdVars, lockVars, jobsCache, eventChan, schedVars, execVars>>

NoEvent == [absent |-> TRUE]
JobEvent(type, job) == [EventType |-> type, Job |-> job]

\* JobManager.handleWatchEvent: the job event it returns
WatchedEvent(cache, ev) ==
    IF ev.Type = "PUT" THEN JobEvent("Save", ev.Value)
    ELSE IF cache[ev.Key] # None THEN JobEvent("Delete", cache[ev.Key])
    ELSE NoEvent

\* JobManager.handleWatchEvent: the cache it leaves
WatchedCacheMut(cache, ev) ==
    IF ev.Type = "PUT" THEN cache ELSE [cache EXCEPT ![ev.Key] = None]
WatchedCache(cache, ev) ==
    IF ev.Type = "PUT" THEN [cache EXCEPT ![ev.Value.Name] = ev.Value]
    ELSE [cache EXCEPT ![ev.Key] = None]

\* the push of watchJobs: the event goes on the channel unless it is full
PushEventMut(chan, jobEvent) ==
    IF jobEvent = NoEvent \/ Len(chan) >= EventChanCap - 1 THEN chan
    ELSE Append(chan, jobEvent)
PushEvent(chan, jobEvent) ==
    IF jobEvent = NoEvent \/ Len(chan) >= EventChanCap THEN chan
    ELSE Append(chan, jobEvent)

\* the watch task of watchJobs takes one delta
WatchJobs(w) ==
    /\ watchChan[w] # <<>>
    /\ watchChan' = [watchChan EXCEPT ![w] = Tail(@)]
    /\ jobsCache' = [jobsCache EXCEPT ![w] = WatchedCache(@, Head(watchChan[w]))]
    /\ eventChan' = [eventChan EXCEPT ![w] =
                        PushEvent(@, WatchedEvent(jobsCache[w], Head(watchChan[w])))]
    /\ UNCHANGED <<now, apiVars, sinkVars, etcdVars, lockVars, kvJobs, schedVars, execVars>>

\* Scheduler.handleJobEvent: the plan table after the event, handled at t
HandledPlansMut(plans, event, t) ==
    IF event.EventType = "Save"
    THEN IF event.Job.Disabled \/ Parse(event.Job.CronExpr) = 0 THEN plans
         ELSE [plans EXCEPT ![event.Job.Name] = JobSchedulePlan(event.Job, t)]
    ELSE [plans EXCEPT ![event.Job.Name] = None]
HandledPlans(plans, event, t) ==
    IF event.EventType = "Save"
    THEN IF event.Job.Disabled THEN [plans EXCEPT ![event.Job.Name] = None]
         ELSE IF Parse(event.Job.CronExpr) = 0 THEN plans
         ELSE [plans EXCEPT ![event.Job.Name] = JobSchedulePlan(event.Job, t)]
    ELSE [plans EXCEPT ![event.Job.Name] = None]

\* Scheduler.handleJobEvent: the in-flight table after the event; no case of
\* the handler touches it
HandledExecutingMut(executing, event) ==
    IF event.EventType = "Delete" \/ event.Job.Disabled
    THEN [executing EXCEPT ![event.Job.Name] = None] ELSE executing
HandledExecuting(executing, event) == executing

\* scheduleLoop receives a job event: handleJobEvent
HandleJobEvent(w) ==
    /\ pc[w] = "select"
    /\ eventChan[w] # <<>>
    /\ eventChan' = [eventChan EXCEPT ![w] = Tail(@)]
    /\ jobPlans' = [jobPlans EXCEPT ![w] = HandledPlans(@, Head(eventChan[w]), now)]
    /\ jobExecuting' = [jobExecuting EXCEPT ![w] = HandledExecuting(@, Head(eventChan[w]))]
    /\ UNCHANGED <<now, apiVars, sinkVars, etcdVars, lockVars, kvJobs, watchChan, jobsCache,
                   pc, tick, execVars>>

\* one worker started at some time on an empty store; the master saves and
\* deletes definitions of one job
InitWatch == InitCluster([j \in Jobs |-> None], {"w1"})

\* the definitions the master is asked to save
SavedJobs ==
    {Job("j1", EverySecond, FALSE), Job("j1", EveryThreeSeconds, FALSE),
     Job("j1", BadExpr, FALSE), Job("j1", EverySecond, TRUE)}

NextWatch ==
    \/ \E job \in SavedJobs : MasterSaveJob(job)
    \/ \E name \in Jobs : MasterDeleteJob(name)
    \/ \E w \in Workers : WatchJobs(w)
    \/ \E w \in Workers : HandleJobEvent(w)

SpecWatch == InitWatch /\ [][NextWatch]_vars

\* the delta the watch task takes next is a Put of an enabled job whose
\* expression parses
EnabledPutNext(w) ==
    /\ watchChan[w] # <<>>
    /\ Head(watchChan[w]).Type = "PUT"
    /\ ~Head(watchChan[w]).Value.Disabled
    /\ Parse(Head(watchChan[w]).Value.CronExpr) # 0

EnabledSaveNext(w) ==
    /\ eventChan[w] # <<>>
    /\ Head(eventChan[w]).EventType = "Save"
    /\ ~Head(eventChan[w]).Job.Disabled
    /\ Parse(Head(eventChan[w]).Job.CronExpr) # 0

\* C6 as stated: every Put of an enabled, parseable job that the watch
\* delivers is queued for the scheduler, and the scheduler builds its plan
C6_NoPutLost ==
    [][\A w \in Workers :
          /\ (WatchJobs(w) /\ EnabledPutNext(w)) =>
                 /\ eventChan'[w] # <<>>
                 /\ eventChan'[w][Len(eventChan'[w])] = JobEvent("Save", Head(watchChan[w]).Value)
                 /\ Len(eventChan'[w]) = Len(eventChan[w]) + 1
          /\ (HandleJobEvent(w) /\ EnabledSaveNext(w)) =>
                 jobPlans'[w][Head(eventChan[w]).Job.Name] =
                     JobSchedulePlan(Head(eventChan[w]).Job, now)]_vars

\* C6 amended: the same for every such Put that arrives while the event
\* channel has room; one that arrives at a full channel is dropped
C6_PutWithRoomYieldsPlan ==
    [][\A w \in Workers :
          /\ (WatchJobs(w) /\ EnabledPutNext(w)) =>
                 IF Len(eventChan[w]) < EventChanCap
                 THEN eventChan'[w] = Append(eventChan[w],
                                             JobEvent("Save", Head(watchChan[w]).Value))
                 ELSE eventChan'[w] = eventChan[w]
          /\ (HandleJobEvent(w) /\ EnabledSaveNext(w)) =>
                 jobPlans'[w][Head(eventChan[w]).Job.Name] =
                     JobSchedulePlan(Head(eventChan[w]).Job, now)]_vars

\* the scheduler holds the plan of the definition now stored, built after
\* an older plan of the same job
C6_Witness ==
    \E w \in Workers, j \in Jobs :
        /\ kvJobs[j] # None /\ jobPlans[w][j] # None
        /\ jobPlans[w][j].Job = kvJobs[j]
        /\ jobPlans[w][j].NextTime > 1
        /\ watchChan[w] = <<>> /\ eventChan[w] = <<>>

\* ------------------------------------------- the executor, step by step
\* Job.Command, named by what the command does when nothing stops it
Commands == {"exit 0", "exit 1", "cannot start"}

TimedJob(name, command, timeout) ==
    [Name |-> name, Command |-> command, CronExpr |-> EverySecond,
     Disabled |-> FALSE, Timeout |-> timeout]

\* the task ExecuteJob(info) starts on worker w. at: "spawned" until the
\* task has stored CancelFunc in info, "running" while cmd.Run() runs, "ran"
\* from the return of cmd.Run() to the send of the result. ctx: the state of
\* the task's context. err: what cmd.Run() returned. endedBy: what ended
\* the command, itself or the context
Task(w, info) ==
    [worker |-> w, job |-> info.Job.Name, PlanTime |-> info.PlanTime,
     Command |-> info.Job.Command, Timeout |-> info.Job.Timeout,
     at |-> "spawned", ctx |-> "none",
     err |-> "none", endedBy |-> "none"]

\* the ExecuteInfo of a job dispatched now
InfoNow(job) == JobExecuteInfo([Job |-> job, NextTime |-> now], now)

\* the tasks of worker w that run this job
TasksOf(w, job) ==
    {e \in running : e.worker = w /\ e.job = job.Name /\ e.Command = job.Command
                       /\ e.Timeout = job.Timeout}

\* Executor.ExecuteJob(info), called as the executor's tests call it: the
\* task is started (one task per job definition at a time)
ExecuteJob(w, job) ==
    /\ TasksOf(w, job) = {}
    /\ running' = running \cup {Task(w, InfoNow(job))}
    /\ dispatched' = dispatched \cup {[worker |-> w, job |-> job.Name, fire |-> now]}
    /\ UNCHANGED <<now, apiVars, sinkVars, etcdVars, lockVars, watchVars, schedVars,
                   jobResults, appended>>

\* tryStartJob from the table entry to ExecuteJob
StartJob(w, job) ==
    /\ pc[w] = "select"
    /\ ~AlreadyExecuting(w, job.Name)
    /\ TasksOf(w, job) = {}
    /\ jobExecuting' = StoreExecuting(w, job.Name, InfoNow(job))
    /\ running' = running \cup {Task(w, InfoNow(job))}
    /\ dispatched' = dispatched \cup {[worker |-> w, job |-> job.Name, fire |-> now]}
    /\ UNCHANGED <<now, apiVars, sinkVars, etcdVars, lockVars, watchVars, jobPlans,
                   pc, tick, jobResults, appended>>

\* the task makes its context, stores CancelFunc and starts the command
TaskBegin(e) ==
    /\ e \in running /\ e.at = "spawned"
    /\ running' = (running \ {e}) \cup {[e EXCEPT !.at = "running", !.ctx = "live"]}
    /\ UNCHANGED <<now, apiVars, sinkVars, etcdVars, lockVars, watchVars, schedVars,
                   jobResults, appended, dispatched>>

\* the deadline of a context made by WithTimeout passes
DeadlineExceeded(e) ==
    /\ e \in running /\ e.Timeout > 0 /\ e.ctx = "live"
    /\ running' = (running \ {e}) \cup {[e EXCEPT !.ctx = "deadline"]}
    /\ UNCHANGED <<now, apiVars, sinkVars, etcdVars, lockVars, watchVars, schedVars,
                   jobResults, appended, dispatched>>

\* what cmd.Run() returns when nothing stops the command: nil, a non-zero
\* exit, or a launch failure
OwnError(command) ==
    CASE command = "exit 0" -> "nil"
      [] command = "exit 1" -> "exit"
      [] OTHER -> "launch"

\* what cmd.Run() can return: the command's own outcome, or the kill by a
\* context that is done
RunErrors(e) == {OwnError(e.Command)} \cup (IF e.ctx = "live" THEN {} ELSE {"killed"})

\* cmd.Run() returns err
CmdRun(e, err) ==
    /\ e \in running /\ e.at = "running"
    /\ err \in RunErrors(e)
    /\ running' = (running \ {e}) \cup
           {[e EXCEPT !.at = "ran", !.err = err,
                      !.endedBy = IF err = "killed" THEN e.ctx ELSE "self"]}
    /\ UNCHANGED <<now, apiVars, sinkVars, etcdVars, lockVars, watchVars, schedVars,
                   jobResults, appended, dispatched>>

\* the test for a timeout: cmd.Run() returned an error and the context's
\* error is DeadlineExceeded
TimedOutMut(e) == e.ctx = "deadline"
TimedOut(e) == e.err # "nil" /\ e.ctx = "deadline"

\* the result the task builds once cmd.Run() has returned (Timeout, err,
\* ctx and endedBy record where the result comes from)
ExecuteResult(e) ==
    [JobName |-> e.job, PlanTime |-> e.PlanTime,
     IsTimeout |-> TimedOut(e),
     ExitCode |-> CASE TimedOut(e) -> -1
                    [] e.err = "nil" -> 0
                    [] e.err = "exit" -> 1
                    [] OTHER -> -1,
     Error |-> CASE TimedOut(e) -> "job execution timed out"
                 [] e.err = "nil" -> ""
                 [] OTHER -> e.err,
     Timeout |-> e.Timeout, err |-> e.err, ctx |-> e.ctx, endedBy |-> e.endedBy]

\* the send on the result channel waits for room
CanSendMut(w) == TRUE
CanSend(w) == Len(jobResults[w]) < ResultChanCap

\* the task looks at its context, builds the result and sends it
TaskSend(e) ==
    /\ e \in running /\ e.at = "ran"
    /\ CanSend(e.worker)
    /\ running' = running \ {e}
    /\ jobResults' = [jobResults EXCEPT ![e.worker] = Append(@, ExecuteResult(e))]
    /\ UNCHANGED <<now, apiVars, sinkVars, etcdVars, lockVars, watchVars, schedVars,
                   appended, dispatched>>

\* Executor.KillJob(name, info): CancelFunc is called if the task has
\* stored it; cancelling a context that is done changes nothing
Cancelled(w, info) ==
    {IF e \in TasksOf(w, info.Job) /\ e.PlanTime = info.PlanTime /\ e.ctx = "live"
     THEN [e EXCEPT !.ctx = "cancelled"] ELSE e : e \in running}

\* Executor.KillJob called with the info of a task
ExecutorKillJob(w, job) ==
    /\ running' = Cancelled(w, InfoNow(job))
    /\ UNCHANGED <<now, apiVars, sinkVars, etcdVars, lockVars, watchVars, schedVars,
                   jobResults, appended, dispatched>>

\* the lookup of Scheduler.KillJob
ExistsMut(w, name) == \E e \in running : e.worker = w /\ e.job = name
Exists(w, name) == jobExecuting[w][name] # None

\* Scheduler.KillJob(name)
SchedulerKillJob(w, name) ==
    /\ IF Exists(w, name)
       THEN /\ running' = Cancelled(w, jobExecuting[w][name])
            /\ killErr' = [killErr EXCEPT ![w] = "nil"]
       ELSE /\ killErr' = [killErr EXCEPT ![w] = "ErrJobNotFound"]
            /\ UNCHANGED running
    /\ UNCHANGED <<now, lwt, masterVars, taskVars, sinkVars, etcdVars, lockVars, watchVars, schedVars,
                   jobResults, appended, dispatched>>

\* the jobs the executor is asked to run
Asked ==
    {TimedJob("j1", "exit 0", 1), TimedJob("j1", "exit 1", 1),
     TimedJob("j2", "cannot start", 0)}

\* the executor of one worker: tasks are started and killed freely, and
\* results are received from the channel
InitExec == now = 0 /\ InitCluster([j \in Jobs |-> None], {"w1"})

NextExec ==
    \/ \E job \in Asked : ExecuteJob("w1", job)
    \/ \E e \in running : TaskBegin(e)
    \/ \E e \in running : DeadlineExceeded(e)
    \/ \E e \in running, err \in {"nil", "exit", "launch", "killed"} : CmdRun(e, err)
    \/ \E e \in running : TaskSend(e)
    \/ \E job \in Asked : ExecutorKillJob("w1", job)
    \/ HandleJobResult("w1")

SpecExec == InitExec /\ [][NextExec]_vars

\* the scheduler of one worker: jobs are dispatched and killed freely, and
\* both receivers of the result channel run
NextKillJob ==
    \/ \E job \in Asked : StartJob("w1", job)
    \/ \E e \in running : TaskBegin(e)
    \/ \E e \in running : DeadlineExceeded(e)
    \/ \E e \in running, err \in {"nil", "exit", "launch", "killed"} : CmdRun(e, err)
    \/ \E e \in running : TaskSend(e)
    \/ \E name \in Jobs : SchedulerKillJob("w1", name)
    \/ HandleJobResult("w1")
    \/ HandleExecuteResults("w1")

SpecKillJob == InitExec /\ [][NextKillJob]_vars

\* C16: Scheduler.KillJob returns the job-not-found error exactly when the
\* name has no entry in the in-flight table, and then changes nothing else;
\* with an entry it returns nil
C16_KillJobNotFound ==
    [][\A w \in Workers, name \in Jobs :
          SchedulerKillJob(w, name) =>
              /\ killErr'[w] = "ErrJobNotFound" <=> jobExecuting[w][name] = None
              /\ killErr'[w] = "nil" <=> jobExecuting[w][name] # None
              /\ jobExecuting[w][name] = None =>
                     UNCHANGED <<running, jobResults, jobExecuting, jobPlans, appended>>]_vars

\* KillJob has returned job-not-found for a job whose entry is gone while
\* another job of the worker is executing
C16_Witness ==
    \E w \in Workers, j \in Jobs, k \in Jobs :
        /\ killErr[w] = "ErrJobNotFound"
        /\ jobExecuting[w][j] = None /\ [worker |-> w, job |-> j, fire |-> 0] \in dispatched
        /\ jobExecuting[w][k] # None /\ \E e \in running : e.job = k /\ e.ctx = "cancelled"

\* the tasks that are in running before the step and gone after it
TaskId(e) == <<e.worker, e.job, e.Command, e.Timeout, e.PlanTime>>
Finished == {e \in running : \A f \in running' : TaskId(f) # TaskId(e)}

\* C17: a task leaves the executor only by sending its one result, whatever
\* cmd.Run() returned, and only when the channel has room; results appear on
\* the channel in no other way, leave it only from the head, and the channel
\* never holds more than its capacity
C17_OneResultPerExecution ==
    [][/\ \A e \in Finished :
             /\ e.at = "ran"
             /\ Len(jobResults[e.worker]) < ResultChanCap
             /\ jobResults'[e.worker] = Append(jobResults[e.worker], ExecuteResult(e))
       /\ Cardinality(Finished) <= 1
       /\ \A w \in Workers :
             /\ Len(jobResults'[w]) <= ResultChanCap
             /\ (\A e \in Finished : e.worker # w) =>
                    (jobResults'[w] = jobResults[w] \/ jobResults'[w] = Tail(jobResults[w]))]_vars

\* the channel is full and a killed task waits to send its result
C17_Witness ==
    \E e \in running :
        /\ e.at = "ran" /\ e.endedBy = "cancelled"
        /\ Len(jobResults[e.worker]) = ResultChanCap

JobLog(n) == [JobName |-> "j1", PlanTime |-> n, ScheduleTime |-> n, resultOf |-> n]

\* the JobLogs Append has been called with, and the next one
Appended == appended["w1"]
NextLog == JobLog(Cardinality(Appended) + 1)

\* LogSink.Append: the non-blocking send on logChan
PushLogMut(chan, log) == Append(chan, log)
PushLog(chan, log) == IF Len(chan) < LogChanCap THEN Append(chan, log) ELSE chan

LogSinkAppend ==
    /\ Cardinality(Appended) < MaxLogs
    /\ logChan' = PushLog(logChan, NextLog)
    /\ appended' = [appended EXCEPT !["w1"] = @ \cup {NextLog}]
    /\ UNCHANGED <<now, apiVars, logBatch, store, commitTimer, etcdVars, lockVars,
                   watchVars, schedVars, running, jobResults, dispatched>>

\* the batch is full
BatchFullMut(batch) == Len(batch) > LogBatchSize
BatchFull(batch) == Len(batch) >= LogBatchSize

\* LogSink.commitLogs: the batch goes to InsertMany, which succeeds or
\* fails, and the batch is emptied either way (by: the caller of commitLogs)
CommitLogs(batch, ok, by) ==
    /\ store' = IF batch = <<>> THEN store
                ELSE Append(store, [logs |-> batch, ok |-> ok, by |-> by])
    /\ logBatch' = <<>>

\* commitTimer.Reset after a size-triggered commit: the timer is armed again;
\* an expiry that was already waiting in the timer's channel is cleared by
\* some runtimes and left there by others
ResetAfterCommit == {"armed"} \cup {commitTimer}

\* the sink's task receives a log
SinkReceive ==
    /\ logChan # <<>>
    /\ logChan' = Tail(logChan)
    /\ IF BatchFull(Append(logBatch, Head(logChan)))
       THEN /\ \E ok \in BOOLEAN : CommitLogs(Append(logBatch, Head(logChan)), ok, "size")
            /\ commitTimer' \in ResetAfterCommit
       ELSE /\ logBatch' = Append(logBatch, Head(logChan))
            /\ UNCHANGED <<store, commitTimer>>
    /\ UNCHANGED <<now, apiVars, etcdVars, lockVars, watchVars, schedVars, execVars>>

\* LogCommitTimeout has passed since the timer was armed
TimerExpires ==
    /\ commitTimer = "armed"
    /\ commitTimer' = "fired"
    /\ UNCHANGED <<now, apiVars, logChan, logBatch, store, etcdVars, lockVars,
                   watchVars, schedVars, execVars>>

\* the timer case commits a batch that holds something
HasLogsMut(batch) == Len(batch) >= LogBatchSize
HasLogs(batch) == Len(batch) > 0

\* the sink's task receives the expiry: it commits what the batch holds and
\* arms the timer again
SinkTimer ==
    /\ commitTimer = "fired"
    /\ IF HasLogs(logBatch)
       THEN \E ok \in BOOLEAN : CommitLogs(logBatch, ok, "timer")
       ELSE UNCHANGED <<logBatch, store>>
    /\ commitTimer' = "armed"
    /\ UNCHANGED <<now, apiVars, logChan, etcdVars, lockVars, watchVars, schedVars, execVars>>

InitSinkOnly == now = 0 /\ InitCluster([j \in Jobs |-> None], {"w1"})

NextSink ==
    \/ LogSinkAppend
    \/ SinkReceive
    \/ TimerExpires
    \/ SinkTimer

SpecSink == InitSinkOnly /\ [][NextSink]_vars

\* the sink's task keeps running and time keeps passing; nothing obliges
\* anybody to call Append
SpecSinkLive ==
    /\ InitSinkOnly
    /\ [][NextSink]_vars
    /\ WF_vars(TimerExpires)
    /\ WF_vars(SinkTimer)

\* the logs the sink holds or has handed to the store, in order
RECURSIVE Flat(_)
Flat(batches) ==
    IF batches = <<>> THEN <<>> ELSE Head(batches).logs \o Flat(Tail(batches))

\* C19: Append returns in every state of the channel: with room the log is
\* queued behind the others, without room it is dropped and the queue stays
\* as it is; the channel never holds more than its capacity
C19_AppendNeverBlocks ==
    /\ [](Cardinality(Appended) < MaxLogs => ENABLED LogSinkAppend)
    /\ [](Len(logChan) <= LogChanCap)
    /\ [][LogSinkAppend =>
             IF Len(logChan) < LogChanCap
             THEN logChan' = Append(logChan, NextLog)
             ELSE logChan' = logChan]_vars

\* a log was handed to Append and is nowhere in the sink: it was dropped at
\* a full channel, and the channel is still full
C19_Witness ==
    /\ Len(logChan) = LogChanCap
    /\ \E log \in Appended :
          /\ \A i \in 1 .. Len(logChan) : logChan[i] # log
          /\ \A i \in 1 .. Len(logBatch) : logBatch[i] # log
          /\ \A i \in 1 .. Len(Flat(store)) : Flat(store)[i] # log

\* C20: between two steps of the sink's task the batch holds fewer than
\* LogBatchSize logs; the log that fills the batch goes with the whole batch
\* to InsertMany and the batch is emptied
C20_BatchBelowSize ==
    /\ [](Len(logBatch) < LogBatchSize)
    /\ [][(SinkReceive /\ Len(logBatch) + 1 >= LogBatchSize) =>
             /\ logBatch' = <<>>
             /\ Len(store') = Len(store) + 1
             /\ store'[Len(store')].logs = Append(logBatch, Head(logChan))]_vars

\* a batch of LogBatchSize logs has gone to the store and the next batch
\* has begun
C20_Witness ==
    /\ store # <<>> /\ Len(store[1].logs) = LogBatchSize
    /\ logBatch # <<>>

\* LogSink.Stop: commits what the batch holds at that moment; the channel
\* is not read and the sink's task is left running
LogSinkStop ==
    /\ IF Len(logBatch) > 0
       THEN \E ok \in BOOLEAN : CommitLogs(logBatch, ok, "stop")
       ELSE UNCHANGED <<logBatch, store>>
    /\ UNCHANGED <<now, apiVars, logChan, commitTimer, etcdVars, lockVars, watchVars,
                   schedVars, execVars>>

NextStop == NextSink \/ LogSinkStop

SpecStop == InitSinkOnly /\ [][NextStop]_vars

\* the sink holds the log or has handed it to the store: Append queued it
Accepted(log) ==
    \/ \E i \in 1 .. Len(logChan) : logChan[i] = log
    \/ \E i \in 1 .. Len(logBatch) : logBatch[i] = log
    \/ \E i \in 1 .. Len(Flat(store)) : Flat(store)[i] = log

\* C21: a log in the batch goes to InsertMany when the commit timer next
\* expires, whatever the size of the batch and whether or not another log
\* arrives, and every expiry the task receives arms the timer again
C21_TimerFlushesBatch ==
    /\ \A n \in 1 .. MaxLogs :
          (\E i \in 1 .. Len(logBatch) : logBatch[i] = JobLog(n))
             ~> (\E i \in 1 .. Len(Flat(store)) : Flat(store)[i] = JobLog(n))
    /\ [][SinkTimer =>
             /\ logBatch' = <<>>
             /\ logBatch # <<>> =>
                   /\ Len(store') = Len(store) + 1
                   /\ store'[Len(store')].logs = logBatch
             /\ commitTimer' = "armed"]_vars
    /\ [](commitTimer = "fired" => ENABLED SinkTimer)

\* a batch smaller than LogBatchSize went to the store while nothing was
\* waiting on the channel
C21_Witness ==
    /\ store # <<>>
    /\ Len(store[Len(store)].logs) < LogBatchSize
    /\ logChan = <<>> /\ logBatch = <<>>
    /\ commitTimer = "armed"

\* C22: when Stop returns the batch is empty and every log that Append had
\* queued before the call has been handed to InsertMany
C22_StopFlushesAccepted ==
    [][LogSinkStop =>
          /\ logBatch' = <<>>
          /\ \A n \in 1 .. MaxLogs :
                Accepted(JobLog(n)) =>
                   \E i \in 1 .. Len(Flat(store')) : Flat(store')[i] = JobLog(n)]_vars

\* ---------------------------------------------------- master LogManager
\* time.Now().Unix() at model time t: model time 0 is the wall-clock second
\* UnixAtStart
DaySeconds == 86400
UnixAtStart == 31 * DaySeconds
Unix(t) == UnixAtStart + t

\* the retentionDays the cleaner is called with
RetentionDays == {-1, 0, 1, 2}

\* the end times of the logs the workers have written: around the cutoffs
EndTimes ==
    {Unix(0) - d * DaySeconds + k : d \in {1, 30}, k \in {-1, 0, MaxTime}}

LogDoc(name, endTime) == [JobName |-> name, EndTime |-> endTime]

\* mongodb Client.InsertMany of one log by a worker's sink
InsertLog(doc) ==
    /\ doc \notin collection
    /\ collection' = collection \cup {doc}
    /\ UNCHANGED <<now, lastClean, query, jobApiVars, regVars, idleVars, watchVars>>

\* time.Now().AddDate(0, 0, -retentionDays), in seconds
CutoffTime(retentionDays) ==
    Unix(now) - (IF retentionDays <= 0 THEN 30 ELSE retentionDays) * DaySeconds

\* the filter of DeleteOldLogs: endTime $lt before
ExpiredMut(doc, before) == doc.EndTime <= before
Expired(doc, before) == doc.EndTime < before

\* LogManager.CleanExpiredLogs: DeleteMany removes every document the filter
\* matches, or fails having removed some of them
CleanExpiredLogs(retentionDays) ==
    LET before == CutoffTime(retentionDays)
        old == {doc \in collection : Expired(doc, before)}
    IN  /\ \/ /\ collection' = collection \ old
              /\ lastClean' = [err |-> "nil", before |-> before,
                               deletedCount |-> Cardinality(old)]
           \/ \E gone \in SUBSET old :
                 /\ collection' = collection \ gone
                 /\ lastClean' = [err |-> "MongoError", before |-> before,
                                  deletedCount |-> 0]
        /\ UNCHANGED <<now, query, jobApiVars, regVars, idleVars, watchVars>>

InitLogManager == now = 0 /\ InitCluster([j \in Jobs |-> None], {})

NextLogs ==
    \/ \E endTime \in EndTimes : InsertLog(LogDoc("j1", endTime))
    \/ \E retentionDays \in RetentionDays : CleanExpiredLogs(retentionDays)
    \/ AdvanceTime

SpecLogs == InitLogManager /\ [][NextLogs]_vars

\* C23: a sweep with retentionDays > 0 that returns without error leaves
\* exactly the logs whose endTime is not before now minus retentionDays days
C23_SweepRemovesExactlyExpired ==
    [][\A retentionDays \in RetentionDays :
          (CleanExpiredLogs(retentionDays) /\ retentionDays > 0 /\ lastClean'.err = "nil")
             => collection' = {doc \in collection :
                                  doc.EndTime >= Unix(now) - retentionDays * DaySeconds}]_vars

\* a sweep with retentionDays = 1 removed a log and left the log that ended
\* exactly at the cutoff
C23_Witness ==
    /\ lastClean.err = "nil"
    /\ lastClean.before = Unix(now) - DaySeconds
    /\ lastClean.deletedCount > 0
    /\ \E doc \in collection : doc.EndTime = lastClean.before

\* ---------------------------------------------------- master JobManager
\* common.Job with all its fields
FullJob(name, command, expr, timeout, disabled, createdAt, updatedAt) ==
    [Name |-> name, Command |-> command, CronExpr |-> expr, Timeout |-> timeout,
     Disabled |-> disabled, CreatedAt |-> createdAt, UpdatedAt |-> updatedAt]

\* json.Marshal and json.Unmarshal of a Job: the value under the key lists
\* the seven fields by their tags
Marshal(job) ==
    [json |-> <<job.Name, job.Command, job.CronExpr, job.Timeout, job.Disabled,
                job.CreatedAt, job.UpdatedAt>>]
Unmarshal(data) ==
    FullJob(data.json[1], data.json[2], data.json[3], data.json[4], data.json[5],
            data.json[6], data.json[7])

\* SaveJob's time stamps
StampedMut(job, t) == [job EXCEPT !.CreatedAt = t, !.UpdatedAt = t]
Stamped(job, t) ==
    [job EXCEPT !.CreatedAt = IF @ = 0 THEN t ELSE @, !.UpdatedAt = t]

Reply(op, name, err, job) == [op |-> op, name |-> name, err |-> err, job |-> job]

\* the body of SaveJob: the Put succeeds and the watchers are told, or it
\* fails and the store stays as it is
PutJob(op, job) ==
    LET stamped == Stamped(job, Unix(now))
    IN  \/ /\ kvJobs' = [kvJobs EXCEPT ![job.Name] = Marshal(stamped)]
           /\ Notify(WatchEvent("PUT", job.Name, Marshal(stamped)))
           /\ reply' = Reply(op, job.Name, "nil", stamped)
        \/ /\ reply' = Reply(op, job.Name, "EtcdError", stamped)
           /\ UNCHANGED <<kvJobs, watchChan>>

\* JobManager.SaveJob
SaveJob(job) ==
    /\ PutJob("SaveJob", job)
    /\ UNCHANGED <<now, logVars, regVars, rmw, idleVars, jobsCache, eventChan>>

\* what JobManager.GetJob returns when etcd answers
GetResult(name) ==
    IF kvJobs[name] = None
    THEN [err |-> "ErrJobNotFound", job |-> None]
    ELSE [err |-> "nil", job |-> Unmarshal(kvJobs[name])]

\* JobManager.GetJob
GetJob(name) ==
    /\ \/ reply' = Reply("GetJob", name, GetResult(name).err, GetResult(name).job)
       \/ reply' = Reply("GetJob", name, "EtcdError", None)
    /\ UNCHANGED <<now, logVars, regVars, rmw, idleVars, watchVars>>

\* resp.Deleted of the Delete of one key
Deleted(name) == IF kvJobs[name] = None THEN 0 ELSE 1

\* DeleteJob reports a missing job
NoneDeletedMut(deleted) == deleted < 0
NoneDeleted(deleted) == deleted = 0

\* JobManager.DeleteJob
DeleteJob(name) ==
    /\ \/ /\ kvJobs' = [kvJobs EXCEPT ![name] = None]
          /\ IF Deleted(name) = 0
             THEN UNCHANGED watchChan
             ELSE Notify(WatchEvent("DELETE", name, None))
          /\ reply' = Reply("DeleteJob", name,
                            IF NoneDeleted(Deleted(name)) THEN "ErrJobNotFound" ELSE "nil",
                            None)
       \/ /\ reply' = Reply("DeleteJob", name, "EtcdError", None)
          /\ UNCHANGED <<kvJobs, watchChan>>
    /\ UNCHANGED <<now, logVars, regVars, rmw, idleVars, jobsCache, eventChan>>

\* what DisableJob and EnableJob change in the job they read
ToggledMut(job, disabled, t) ==
    [job EXCEPT !.Disabled = disabled, !.UpdatedAt = t, !.CreatedAt = t]
Toggled(job, disabled, t) == [job EXCEPT !.Disabled = disabled, !.UpdatedAt = t]

Flag(op) == op = "DisableJob"

\* DisableJob and EnableJob up to the return of their GetJob: an error is
\* returned to the caller, a job is modified and kept for the SaveJob
ToggleRead(op, name) ==
    /\ rmw = None
    /\ \/ IF GetResult(name).err = "nil"
          THEN /\ rmw' = [op |-> op,
                          read |-> GetResult(name).job,
                          job |-> Toggled(GetResult(name).job, Flag(op), Unix(now))]
               /\ UNCHANGED reply
          ELSE /\ reply' = Reply(op, name, GetResult(name).err, None)
               /\ UNCHANGED rmw
       \/ /\ reply' = Reply(op, name, "EtcdError", None)
          /\ UNCHANGED rmw
    /\ UNCHANGED <<now, logVars, regVars, idleVars, watchVars>>

\* their SaveJob
ToggleWrite ==
    /\ rmw # None
    /\ PutJob(rmw.op, rmw.job)
    /\ rmw' = None
    /\ UNCHANGED <<now, logVars, regVars, idleVars, jobsCache, eventChan>>

\* the definitions of j1 the master is asked to save: a new one, and one
\* that carries the time stamps of an earlier save; j2 is never saved
OldStamp == Unix(0) - 5
AskedJobs ==
    {FullJob("j1", "exit 0", EverySecond, 1, FALSE, 0, 0),
     FullJob("j1", "exit 1", EveryThreeSeconds, 0, TRUE, OldStamp, OldStamp)}

InitJobManager == now = 0 /\ InitCluster([j \in Jobs |-> None], {})

NextJobs ==
    \/ \E job \in AskedJobs : SaveJob(job)
    \/ \E name \in Jobs : GetJob(name)
    \/ \E name \in Jobs : DeleteJob(name)
    \/ \E op \in {"DisableJob", "EnableJob"}, name \in Jobs : ToggleRead(op, name)
    \/ ToggleWrite
    \/ AdvanceTime

SpecJobs == InitJobManager /\ [][NextJobs]_vars

\* C24: after a SaveJob that returned nil, GetJob of the name returns the
\* saved fields with createdAt = the save time if it was zero and as given
\* otherwise, and updatedAt = the save time; the store holds that one
\* definition under the name
C24_SaveThenGet ==
    [][\A job \in AskedJobs :
          (SaveJob(job) /\ reply'.err = "nil") =>
              /\ GetResult(job.Name)'.err = "nil"
              /\ GetResult(job.Name)'.job =
                    FullJob(job.Name, job.Command, job.CronExpr, job.Timeout, job.Disabled,
                            IF job.CreatedAt = 0 THEN Unix(now) ELSE job.CreatedAt,
                            Unix(now))
              /\ \A other \in Jobs \ {job.Name} : kvJobs'[other] = kvJobs[other]]_vars

\* GetJob returned a job that was saved with the createdAt of an earlier
\* save: it has that createdAt and a later updatedAt
C24_Witness ==
    /\ reply.op = "GetJob" /\ reply.err = "nil"
    /\ reply.job.CreatedAt = OldStamp
    /\ reply.job.UpdatedAt > Unix(0)
    /\ reply.job.Command = "exit 1"

\* C25: DeleteJob of a stored name returns nil and a GetJob that follows
\* returns ErrJobNotFound; DeleteJob of a name without definition returns
\* ErrJobNotFound and leaves the store and the watchers as they were
C25_DeleteThenNotFound ==
    [][\A name \in Jobs :
          (DeleteJob(name) /\ reply'.err # "EtcdError") =>
              IF kvJobs[name] # None
              THEN /\ reply'.err = "nil"
                   /\ GetResult(name)'.err = "ErrJobNotFound"
                   /\ \A other \in Jobs \ {name} : kvJobs'[other] = kvJobs[other]
              ELSE /\ reply'.err = "ErrJobNotFound"
                   /\ kvJobs' = kvJobs
                   /\ watchChan' = watchChan]_vars

\* DeleteJob of a saved job returned nil and the job is gone
C25_Witness ==
    /\ reply = Reply("DeleteJob", "j1", "nil", None)
    /\ kvJobs["j1"] = None

\* C26: the definition DisableJob and EnableJob write is the one they read
\* with disabled set (Disable) or cleared (Enable) and updatedAt = the time
\* of the write, every other field as read; on a name without definition
\* they return ErrJobNotFound and write nothing
C26_ToggleChangesFlagOnly ==
    /\ [][\A name \in Jobs :
             (ToggleWrite /\ rmw.read.Name = name /\ reply'.err = "nil") =>
                 /\ GetResult(name)'.err = "nil"
                 /\ GetResult(name)'.job =
                       FullJob(name, rmw.read.Command, rmw.read.CronExpr,
                               rmw.read.Timeout, rmw.op = "DisableJob",
                               rmw.read.CreatedAt, Unix(now))]_vars
    /\ [][\A op \in {"DisableJob", "EnableJob"}, name \in Jobs :
             (ToggleRead(op, name) /\ kvJobs[name] = None) =>
                 /\ reply'.op = op /\ reply'.name = name
                 /\ reply'.err \in {"ErrJobNotFound", "EtcdError"}
                 /\ rmw' = None
                 /\ kvJobs' = kvJobs]_vars

\* EnableJob returned nil for the job that was saved disabled: it is stored
\* enabled, with its command, timeout and createdAt
C26_Witness ==
    /\ reply.op = "EnableJob" /\ reply.err = "nil"
    /\ kvJobs["j1"] # None
    /\ Unmarshal(kvJobs["j1"]).Disabled = FALSE
    /\ Unmarshal(kvJobs["j1"]).Command = "exit 1"
    /\ Unmarshal(kvJobs["j1"]).CreatedAt = OldStamp
    /\ Unmarshal(kvJobs["j1"]).UpdatedAt = Unix(now)

\* ------------------------------------------------------- worker Register
\* the HeartbeatInterval values of the configuration, in milliseconds
HeartbeatIntervals == {1000, 3000}

\* how long after its tick the loop may get to handle it, in seconds
BeatDelay == 1

\* doRegister's lease TTL in seconds
LeaseTTLMut(interval) == interval \div 1000
LeaseTTL(interval) ==
    IF (interval * 2) \div 1000 < 5 THEN 5 ELSE (interval * 2) \div 1000

\* the ticker's period in seconds
Period(interval) == interval \div 1000

\* doRegister: PutWithLease grants a lease of LeaseTTL seconds and puts the
\* worker's key under it; the grant can fail, and the put after the grant
DoRegister ==
    LET id == heartbeat.granted + 1
        lease == [id |-> id, expires |-> now + LeaseTTL(heartbeat.interval)]
    IN  \/ /\ workerLeases' = workerLeases \cup {lease}
           /\ workerKey' = id
           /\ heartbeat' = [heartbeat EXCEPT !.granted = id,
                                             !.nextTick = @ + Period(heartbeat.interval)]
        \/ /\ workerLeases' = workerLeases \cup {lease}
           /\ UNCHANGED workerKey
           /\ heartbeat' = [heartbeat EXCEPT !.granted = id, !.failed = TRUE,
                                             !.nextTick = @ + Period(heartbeat.interval)]
        \/ /\ UNCHANGED <<workerLeases, workerKey>>
           /\ heartbeat' = [heartbeat EXCEPT !.failed = TRUE,
                                             !.nextTick = @ + Period(heartbeat.interval)]

\* Register.Start under a configured interval: the first registration, and
\* the loop when it succeeded
RegisterStart(interval) ==
    /\ heartbeat.loop = "off" /\ ~heartbeat.failed
    /\ LET id == 1
           lease == [id |-> id, expires |-> now + LeaseTTL(interval)]
       IN  \/ /\ workerLeases' = workerLeases \cup {lease}
              /\ workerKey' = id
              /\ heartbeat' = [interval |-> interval, loop |-> "running",
                               nextTick |-> now + Period(interval),
                               failed |-> FALSE, granted |-> id]
           \/ /\ heartbeat' = [heartbeat EXCEPT !.interval = interval, !.failed = TRUE]
              /\ UNCHANGED <<workerLeases, workerKey>>
    /\ UNCHANGED <<now, lwt, killErr, taskVars, logVars, jobApiVars, sinkVars, etcdVars,
                   lockVars, watchVars, schedVars, execVars>>

\* heartbeatLoop takes a tick: also when Stop has been called and the select
\* finds both the tick and the cancellation
HeartbeatTick ==
    /\ heartbeat.loop \in {"running", "cancelled"}
    /\ now >= heartbeat.nextTick
    /\ DoRegister
    /\ UNCHANGED <<now, lwt, killErr, taskVars, logVars, jobApiVars, sinkVars, etcdVars,
                   lockVars, watchVars, schedVars, execVars>>

\* Register.Stop. It is called while the horizon leaves the last lease the
\* time to expire
RegisterStop ==
    /\ heartbeat.loop = "running"
    /\ now + LeaseTTL(heartbeat.interval) <= MaxRegTime
    /\ heartbeat' = [heartbeat EXCEPT !.loop = "cancelled"]
    /\ UNCHANGED <<now, workerKey, workerLeases, lwt, killErr, taskVars, logVars, jobApiVars,
                   sinkVars, etcdVars, lockVars, watchVars, schedVars, execVars>>

\* heartbeatLoop takes the cancellation and returns
LoopEnds ==
    /\ heartbeat.loop = "cancelled"
    /\ heartbeat' = [heartbeat EXCEPT !.loop = "ended"]
    /\ UNCHANGED <<now, workerKey, workerLeases, lwt, killErr, taskVars, logVars, jobApiVars,
                   sinkVars, etcdVars, lockVars, watchVars, schedVars, execVars>>

\* etcd expires a lease of the Register and deletes the key if it is
\* attached to it
WorkerLeaseExpire ==
    /\ \E lease \in workerLeases :
          /\ now >= lease.expires
          /\ workerLeases' = workerLeases \ {lease}
          /\ workerKey' = IF workerKey = lease.id THEN 0 ELSE workerKey
    /\ UNCHANGED <<now, heartbeat, lwt, killErr, taskVars, logVars, jobApiVars, sinkVars,
                   etcdVars, lockVars, watchVars, schedVars, execVars>>

\* a second passes: no lease is overdue, a running loop is not later than
\* BeatDelay with its tick, and a cancelled loop has returned
RegClock ==
    /\ now < MaxRegTime
    /\ \A lease \in workerLeases : lease.expires > now
    /\ heartbeat.loop = "running" => now < heartbeat.nextTick + BeatDelay
    /\ heartbeat.loop # "cancelled"
    /\ now' = now + 1
    /\ UNCHANGED <<regVars, lwt, killErr, taskVars, logVars, jobApiVars, sinkVars, etcdVars,
                   lockVars, watchVars, schedVars, execVars>>

InitReg == now = 0 /\ InitCluster([j \in Jobs |-> None], {})

NextReg ==
    \/ \E interval \in HeartbeatIntervals : RegisterStart(interval)
    \/ HeartbeatTick
    \/ RegisterStop
    \/ LoopEnds
    \/ WorkerLeaseExpire
    \/ RegClock

SpecReg ==
    /\ InitReg
    /\ [][NextReg]_vars
    /\ WF_vars(RegClock)
    /\ WF_vars(LoopEnds)
    /\ WF_vars(WorkerLeaseExpire)

\* the key of the worker is there, attached to a lease that has not run out
Registered ==
    /\ workerKey # 0
    /\ \E lease \in workerLeases : lease.id = workerKey /\ lease.expires > now

\* C27: while the loop runs and no write has failed, the one key of the
\* worker is registered under a lease that outlasts the time to the next
\* registration; once Stop is called the loop ends, and after it has ended no
\* lease is granted and the key is not put again, so the key goes with its
\* last lease
C27_HeartbeatKeepsKey ==
    /\ []((heartbeat.loop = "running" /\ ~heartbeat.failed) => Registered)
    /\ (heartbeat.loop = "cancelled") ~> (heartbeat.loop = "ended" /\ workerKey = 0)
    /\ [][heartbeat.loop = "ended" =>
             /\ workerLeases' \subseteq workerLeases
             /\ workerKey' \in {workerKey, 0}
             /\ heartbeat'.loop = "ended"]_vars

\* the loop registered again at least once, was stopped, and the key is
\* gone with the last lease
C27_Witness ==
    /\ heartbeat.loop = "ended"
    /\ ~heartbeat.failed
    /\ heartbeat.granted >= 2
    /\ workerKey = 0
    /\ workerLeases = {}

\* ------------------------------------------------- LogManager.ListLogs
\* Go's int: two's complement of IntBits bits
MaxInt == 2 ^ (IntBits - 1) - 1
MinInt == -(2 ^ (IntBits - 1))
Wrap(x) == ((x - MinInt) % (2 ^ IntBits)) + MinInt

DefaultPage == 1
DefaultPageSize == 10
MaxPageSize == 100

\* the page and the page size ListLogs goes on with
PageOf(page) == IF page <= 0 THEN DefaultPage ELSE page
PageSizeOf(pageSize) ==
    IF pageSize <= 0 THEN DefaultPageSize
    ELSE IF pageSize > MaxPageSize THEN MaxPageSize
    ELSE pageSize

\* skip := int64((page - 1) * pageSize), the product taken in int
Skip(page, pageSize) == Wrap(Wrap(PageOf(page) - 1) * PageSizeOf(pageSize))
Limit(pageSize) == PageSizeOf(pageSize)

\* Client.FindJobLogs: the store rejects a negative skip, and otherwise
\* returns at most limit of the documents after the first skip
Min(a, b) == IF a < b THEN a ELSE b
Found(skip, limit) ==
    IF Cardinality(collection) <= skip THEN 0
    ELSE Min(limit, Cardinality(collection) - skip)

\* LogManager.ListLogs
ListLogs(page, pageSize) ==
    /\ query' = [page |-> page, pageSize |-> pageSize,
                 skip |-> Skip(page, pageSize), limit |-> Limit(pageSize),
                 err |-> IF Skip(page, pageSize) < 0 THEN "MongoError" ELSE "nil",
                 logs |-> IF Skip(page, pageSize) < 0 THEN 0
                          ELSE Found(Skip(page, pageSize), Limit(pageSize))]
    /\ UNCHANGED <<now, collection, lastClean, jobApiVars, regVars, idleVars, watchVars>>

\* the page numbers and page sizes of the requests
Pages == {-1, 0, 1, 2, 3, MaxInt - 1, MaxInt}
PageSizes == {-1, 0, 5, DefaultPageSize, MaxPageSize, MaxPageSize + 1}

InitList == now = 0 /\ InitCluster([j \in Jobs |-> None], {})

NextList ==
    \/ \E page \in Pages, pageSize \in PageSizes : ListLogs(page, pageSize)
    \/ \E endTime \in EndTimes : InsertLog(LogDoc("j1", endTime))

SpecList == InitList /\ [][NextList]_vars

\* C28: the query of ListLogs has limit = the page size after defaulting
\* and clamping and skip = (page - 1) x that page size with page 1 for
\* page <= 0; the skip is never negative and no more than MaxPageSize logs
\* are returned
C28_ListLogsQuery ==
    query # NoQuery =>
        /\ query.limit = PageSizeOf(query.pageSize)
        /\ query.limit \in 1 .. MaxPageSize
        /\ query.skip = (PageOf(query.page) - 1) * PageSizeOf(query.pageSize)
        /\ query.skip >= 0
        /\ query.logs <= MaxPageSize

\* ------------------------------------------------- the plan table
\* the event the scheduler takes next is a Save of an enabled job whose
\* expression does not parse
BadSaveNext(w) ==
    /\ eventChan[w] # <<>>
    /\ Head(eventChan[w]).EventType = "Save"
    /\ ~Head(eventChan[w]).Job.Disabled
    /\ Parse(Head(eventChan[w]).Job.CronExpr) = 0

\* C29: handling a Save of an enabled job whose expression does not parse
\* leaves no plan for that job
C29_BadCronRemovesPlan ==
    [][\A w \in Workers :
          (HandleJobEvent(w) /\ BadSaveNext(w)) =>
              jobPlans'[w][Head(eventChan[w]).Job.Name] = None]_vars

\* one worker started on a store that holds j1 enabled, j1 disabled or
\* nothing; the master saves and deletes definitions of j1 while the
\* scheduler ticks; a dispatched command is still running
StoredAtStart ==
    {[j \in Jobs |-> None],
     [j \in Jobs |-> IF j = "j1" THEN Job("j1", EverySecond, FALSE) ELSE None],
     [j \in Jobs |-> IF j = "j1" THEN Job("j1", EverySecond, TRUE) ELSE None]}

InitPlans == now = 0 /\ \E stored \in StoredAtStart : InitCluster(stored, {"w1"})

\* the master enables and disables j1
PlanSaves == {Job("j1", EverySecond, FALSE), Job("j1", EverySecond, TRUE)}

NextPlans ==
    \/ \E job \in PlanSaves : MasterSaveJob(job)
    \/ \E name \in Jobs : MasterDeleteJob(name)
    \/ \E w \in Workers : WatchJobs(w)
    \/ \E w \in Workers : HandleJobEvent(w)
    \/ AdvanceTime
    \/ \E w \in Workers : TrySchedule(w)
    \/ \E w \in Workers, j \in Jobs : TryStartJob(w, j)
    \/ \E w \in Workers : DispatchJob(w)
    \/ \E w \in Workers : TryScheduleReturn(w)

SpecPlans == InitPlans /\ [][NextPlans]_vars

\* the event the scheduler takes next takes the job out of the schedule
RemovalNext(w) ==
    /\ eventChan[w] # <<>>
    /\ \/ Head(eventChan[w]).EventType = "Delete"
       \/ Head(eventChan[w]).EventType = "Save" /\ Head(eventChan[w]).Job.Disabled

\* C30: the plan table never holds a disabled job, from loadJobs on;
\* handling a Save with disabled = true or a Delete leaves no plan for the
\* name; a plan for a name comes into the table only by handling a Save
\* with disabled = false of that name; and a tick looks at, locks and
\* dispatches only jobs that have a plan
C30_NoPlanForDisabledOrDeleted ==
    /\ [](\A w \in Workers, j \in Jobs :
             jobPlans[w][j] # None => ~jobPlans[w][j].Job.Disabled)
    /\ [][\A w \in Workers :
             /\ (HandleJobEvent(w) /\ RemovalNext(w)) =>
                    jobPlans'[w][Head(eventChan[w]).Job.Name] = None
             /\ \A j \in Jobs :
                    (jobPlans[w][j] = None /\ jobPlans'[w][j] # None) =>
                        /\ HandleJobEvent(w)
                        /\ Head(eventChan[w]) = JobEvent("Save", jobPlans'[w][j].Job)
                        /\ ~Head(eventChan[w]).Job.Disabled
             /\ \A j \in Jobs :
                    (TryStartJob(w, j) \/ (DispatchJob(w) /\ tick[w].cur = j)) =>
                        /\ jobPlans[w][j] # None
                        /\ j \in tick[w].due
             /\ (TrySchedule(w) /\ pc'[w] = "schedule") =>
                    tick'[w].due \subseteq {j \in Jobs : jobPlans[w][j] # None}]_vars

\* j1 was dispatched, then its disabling was handled: it is stored
\* disabled, the worker has no plan for it and time has moved on
C30_Witness ==
    /\ kvJobs["j1"] # None /\ kvJobs["j1"].Disabled
    /\ jobPlans["w1"]["j1"] = None
    /\ eventChan["w1"] = <<>> /\ watchChan["w1"] = <<>>
    /\ pc["w1"] = "select"
    /\ \E d \in dispatched : d.worker = "w1" /\ d.job = "j1" /\ d.fire < now

\* ------------------------------- the scheduler's tables, access by access
\* The tables are Go maps without a lock. A table access takes time: it is
\* under way from its Begin step to its End step. The loop's accesses are
\* the store of tryStartJob and the delete of handleJobResult; the other
\* tasks' accesses are the lookup of handleExecuteResults, made through
\* GetExecutingJobs, and the lookup of KillJob, made by its caller.
\* what the steps of this part leave alone
tableFrame == <<now, lwt, masterVars, ctx, commit, sinkVars, etcdVars, lockVars,
                watchVars, jobPlans, pc, tick>>

\* the worker process has not been ended by the runtime
Alive(w) == ~access[w].fatal

\* a write of the loop begins: lookups under way overlap with it
WriteBegins(w, write) ==
    [access[w] EXCEPT
        !.loop = write,
        !.results = IF @ = None THEN @ ELSE [@ EXCEPT !.raced = TRUE],
        !.kill = IF @ = None THEN @ ELSE [@ EXCEPT !.raced = TRUE]]

\* a write of the loop ends: a lookup of the same name under way may see the
\* entry as it was or as it is now
WriteEnds(w, name, entry) ==
    [access[w] EXCEPT
        !.loop = None,
        !.results = IF @ # None /\ @.name = name
                    THEN [@ EXCEPT !.seen = @ \cup {entry}] ELSE @,
        !.kill = IF @ # None /\ @.name = name
                 THEN [@ EXCEPT !.seen = @ \cup {entry}] ELSE @]

\* a lookup of another task begins (result: the result it is made for)
Lookup(w, name, result) ==
    [name |-> name, result |-> result, seen |-> {jobExecuting[w][name]},
     raced |-> access[w].loop # None]

\* tryStartJob has built the ExecuteInfo and begins s.jobExecuting[name] = info
StoreBegin(w, job) ==
    /\ Alive(w) /\ pc[w] = "select" /\ access[w].loop = None
    /\ ~AlreadyExecuting(w, job.Name)
    /\ TasksOf(w, job) = {}
    /\ access' = [access EXCEPT ![w] =
                     WriteBegins(w, [op |-> "store", name |-> job.Name, info |-> InfoNow(job)])]
    /\ UNCHANGED <<tableFrame, killErr, jobExecuting, execVars>>

\* the store is done and the executor starts the task
StoreEnd(w) ==
    LET write == access[w].loop
    IN  /\ Alive(w) /\ write # None /\ write.op = "store"
        /\ jobExecuting' = StoreExecuting(w, write.name, write.info)
        /\ running' = running \cup {Task(w, write.info)}
        /\ dispatched' = dispatched \cup
               {[worker |-> w, job |-> write.name, fire |-> write.info.PlanTime]}
        /\ access' = [access EXCEPT ![w] = WriteEnds(w, write.name, write.info)]
        /\ UNCHANGED <<tableFrame, killErr, jobResults, appended>>

\* the loop receives a result and begins delete(s.jobExecuting, name)
DeleteBegin(w) ==
    /\ Alive(w) /\ pc[w] = "select" /\ access[w].loop = None
    /\ jobResults[w] # <<>>
    /\ jobResults' = [jobResults EXCEPT ![w] = Tail(@)]
    /\ access' = [access EXCEPT ![w] =
                     WriteBegins(w, [op |-> "delete", name |-> Head(jobResults[w]).JobName,
                                     info |-> None])]
    /\ UNCHANGED <<tableFrame, killErr, jobExecuting, running, appended, dispatched>>

DeleteEnd(w) ==
    LET write == access[w].loop
    IN  /\ Alive(w) /\ write # None /\ write.op = "delete"
        /\ jobExecuting' = [jobExecuting EXCEPT ![w][write.name] = None]
        /\ access' = [access EXCEPT ![w] = WriteEnds(w, write.name, None)]
        /\ UNCHANGED <<tableFrame, killErr, execVars>>

\* handleExecuteResults receives a result and begins its lookup
ResultsBegin(w) ==
    /\ Alive(w) /\ access[w].results = None
    /\ jobResults[w] # <<>>
    /\ jobResults' = [jobResults EXCEPT ![w] = Tail(@)]
    /\ access' = [access EXCEPT ![w].results =
                     Lookup(w, Head(jobResults[w]).JobName, Head(jobResults[w]))]
    /\ UNCHANGED <<tableFrame, killErr, jobExecuting, running, appended, dispatched>>

\* the lookups that overlapped with a write: the runtime may end the process
\* ("concurrent map read and map write")
Raced(look) == look.raced

\* its lookup returns one of the entries it may see, and the entry found
\* goes with the result into a JobLog; or the runtime ends the process
ResultsEnd(w) ==
    LET look == access[w].results
    IN  /\ Alive(w) /\ look # None
        /\ \/ \E info \in look.seen :
                 /\ appended' = IF info # None
                                THEN [appended EXCEPT ![w] = @ \cup {BuildJobLog(look.result, info)}]
                                ELSE appended
                 /\ access' = [access EXCEPT ![w].results = None]
           \/ /\ Raced(look) \/ access[w].loop # None
              /\ access' = [access EXCEPT ![w].fatal = TRUE]
              /\ UNCHANGED appended
        /\ UNCHANGED <<tableFrame, killErr, jobExecuting, running, jobResults, dispatched>>

\* a caller of Scheduler.KillJob(name) begins its lookup
KillBegin(w, name) ==
    /\ Alive(w) /\ access[w].kill = None
    /\ access' = [access EXCEPT ![w].kill = Lookup(w, name, None)]
    /\ UNCHANGED <<tableFrame, killErr, jobExecuting, execVars>>

\* its lookup returns: Executor.KillJob with the entry found, or the error
KillEnd(w) ==
    LET look == access[w].kill
    IN  /\ Alive(w) /\ look # None
        /\ \/ \E info \in look.seen :
                 /\ IF info # None
                    THEN /\ running' = Cancelled(w, info)
                         /\ killErr' = [killErr EXCEPT ![w] = "nil"]
                    ELSE /\ killErr' = [killErr EXCEPT ![w] = "ErrJobNotFound"]
                         /\ UNCHANGED running
                 /\ access' = [access EXCEPT ![w].kill = None]
           \/ /\ Raced(look) \/ access[w].loop # None
              /\ access' = [access EXCEPT ![w].fatal = TRUE]
              /\ UNCHANGED <<running, killErr>>
        /\ UNCHANGED <<tableFrame, jobExecuting, jobResults, appended, dispatched>>

\* one worker as cmd/worker starts it: the loop dispatches the jobs asked
\* for, their tasks run, and both receivers of the result channel run
NextTables ==
    \/ \E job \in Asked : StoreBegin("w1", job)
    \/ StoreEnd("w1")
    \/ DeleteBegin("w1")
    \/ DeleteEnd("w1")
    \/ ResultsBegin("w1")
    \/ ResultsEnd("w1")
    \/ \E name \in Jobs : KillBegin("w1", name)
    \/ KillEnd("w1")
    \/ \E e \in running : TaskBegin(e)
    \/ \E e \in running, err \in {"nil", "exit", "launch", "killed"} : CmdRun(e, err)
    \/ \E e \in running : TaskSend(e)

SpecTables == InitExec /\ [][NextTables]_vars

\* C31: while the loop is writing one of its tables no other task is in the
\* middle of an access to them
C31_OnlyLoopTouchesTables ==
    \A w \in Workers :
        access[w].loop # None => (access[w].results = None /\ access[w].kill = None)

\* ---------------------------------------------------- Scheduler.Stop
\* Scheduler.Stop: the scheduler's context is cancelled; the call waits for
\* nothing
SchedulerStop(w) ==
    /\ Started(w) /\ ctx[w] = "live"
    /\ ctx' = [ctx EXCEPT ![w] = "cancelled"]
    /\ UNCHANGED <<now, lwt, killErr, masterVars, access, commit, sinkVars, etcdVars,
                   lockVars, watchVars, schedVars, execVars>>

\* the select of scheduleLoop takes the case of the cancelled context and
\* the loop returns; the select is free to take any other case that is ready
LoopExit(w) ==
    /\ pc[w] = "select" /\ ctx[w] = "cancelled"
    /\ pc' = [pc EXCEPT ![w] = "exited"]
    /\ UNCHANGED <<now, apiVars, sinkVars, etcdVars, lockVars, watchVars, jobPlans,
                   jobExecuting, tick, execVars>>

\* one worker started on two stored jobs, stopped at any moment
NextHalt ==
    \/ AdvanceTime
    \/ \E w \in Workers : TrySchedule(w)
    \/ \E w \in Workers, j \in Jobs : TryStartJob(w, j)
    \/ \E w \in Workers : DispatchJob(w)
    \/ \E w \in Workers : TryScheduleReturn(w)
    \/ \E e \in running : ExecuteJobEnds(e)
    \/ \E w \in Workers : HandleJobResult(w)
    \/ \E w \in Workers : HandleExecuteResults(w)
    \/ \E w \in Workers : SchedulerStop(w)
    \/ \E w \in Workers : LoopExit(w)

SpecHalt == InitTick /\ [][NextHalt]_vars

\* C32: once Stop has been called on a worker's scheduler that worker starts
\* no execution any more, and Stop itself leaves the running executions and
\* the in-flight table as they are
C32_StopEndsDispatching ==
    /\ [][\A w \in Workers :
             ctx[w] = "cancelled" => \A e \in running' \ running : e.worker # w]_vars
    /\ [][\A w \in Workers :
             SchedulerStop(w) => (running' = running /\ jobExecuting' = jobExecuting)]_vars

\* ------------------------- a job leaves the schedule while it executes
\* one worker started on j1; the master disables and deletes j1 while the
\* scheduler ticks, the executions end and both receivers of the result
\* channel run
EvictSaves == {Job("j1", EverySecond, TRUE)}

NextEvict ==
    \/ \E job \in EvictSaves : MasterSaveJob(job)
    \/ \E name \in Jobs : MasterDeleteJob(name)
    \/ \E w \in Workers : WatchJobs(w)
    \/ \E w \in Workers : HandleJobEvent(w)
    \/ AdvanceTime
    \/ \E w \in Workers : TrySchedule(w)
    \/ \E w \in Workers, j \in Jobs : TryStartJob(w, j)
    \/ \E w \in Workers : DispatchJob(w)
    \/ \E w \in Workers : TryScheduleReturn(w)
    \/ \E e \in running : ExecuteJobEnds(e)
    \/ \E w \in Workers : HandleJobResult(w)
    \/ \E w \in Workers : HandleExecuteResults(w)

SpecEvict == InitKill /\ [][NextEvict]_vars

\* C33: handling a Delete or a Save with disabled = true of a job that is
\* in flight removes its plan and leaves the in-flight table, the running
\* executions and the result channel as they are; the execution can end
\* whenever the channel has room, the loop can receive a result whenever it
\* is at its select, and handling the result removes the entry, plan or no
\* plan
C33_RemovalLeavesExecution ==
    /\ [][\A w \in Workers :
             (HandleJobEvent(w) /\ RemovalNext(w)
                  /\ jobExecuting[w][Head(eventChan[w]).Job.Name] # None) =>
                 /\ jobPlans'[w][Head(eventChan[w]).Job.Name] = None
                 /\ jobExecuting' = jobExecuting
                 /\ running' = running
                 /\ jobResults' = jobResults]_vars
    /\ [][\A w \in Workers :
             (HandleJobResult(w) /\ jobPlans[w][Head(jobResults[w]).JobName] = None) =>
                 /\ jobExecuting'[w][Head(jobResults[w]).JobName] = None
                 /\ jobResults'[w] = Tail(jobResults[w])
                 /\ jobPlans' = jobPlans]_vars
    /\ [](\A e \in running :
             Len(jobResults[e.worker]) < ResultChanCap => ENABLED ExecuteJobEnds(e))
    /\ [](\A w \in Workers :
             (pc[w] = "select" /\ jobResults[w] # <<>>) => ENABLED HandleJobResult(w))

\* j1 was deleted while it was executing: the store and the plan table do
\* not hold it, its entry is in the in-flight table and its execution runs
C33_Witness ==
    /\ kvJobs["j1"] = None
    /\ jobPlans["w1"]["j1"] = None
    /\ eventChan["w1"] = <<>> /\ watchChan["w1"] = <<>>
    /\ jobExecuting["w1"]["j1"] # None
    /\ \E e \in running : e.worker = "w1" /\ e.job = "j1"

\* ------------------------------------------- the watch at a full channel
\* C34: the watch task can take a delta whenever one waits, whatever the
\* event channel holds; a delta taken at a full channel leaves the channel
\* as it is and is gone from the watch; every delta taken is in the cache
\* after the step (a Put stored, a Delete removed); the channel never holds
\* more than its capacity
C34_WatchNeverBlocks ==
    /\ [](\A w \in Workers : watchChan[w] # <<>> => ENABLED WatchJobs(w))
    /\ [](\A w \in Workers : Len(eventChan[w]) <= EventChanCap)
    /\ [][\A w \in Workers :
             WatchJobs(w) =>
                 LET ev == Head(watchChan[w]) IN
                 /\ watchChan'[w] = Tail(watchChan[w])
                 /\ Len(eventChan[w]) = EventChanCap => eventChan'[w] = eventChan[w]
                 /\ ev.Type = "PUT" => jobsCache'[w][ev.Key] = ev.Value
                 /\ ev.Type = "DELETE" => jobsCache'[w][ev.Key] = None
                 /\ \A j \in Jobs \ {ev.Key} : jobsCache'[w][j] = jobsCache[w][j]]_vars

\* the channel is full, its last event is a Save, and the cache holds a
\* later definition of that job: the Put that brought it was dropped
C34_Witness ==
    \E w \in Workers :
        LET last == eventChan[w][EventChanCap] IN
        /\ Len(eventChan[w]) = EventChanCap
        /\ watchChan[w] = <<>>
        /\ last.EventType = "Save"
        /\ jobsCache[w][last.Job.Name] # None
        /\ jobsCache[w][last.Job.Name] # last.Job
        /\ jobsCache[w][last.Job.Name] = kvJobs[last.Job.Name]

\* ------------------------------------- NewJobManager: scan, then watch
\* loadJobs: the prefix scan of /cron/jobs/ fills the cache
LoadJobsScan(w) ==
    /\ pc[w] = "off"
    /\ pc' = [pc EXCEPT ![w] = "loaded"]
    /\ jobsCache' = [jobsCache EXCEPT ![w] = kvJobs]
    /\ UNCHANGED <<now, apiVars, sinkVars, etcdVars, lockVars, kvJobs, watchChan, eventChan,
                   jobPlans, jobExecuting, tick, execVars>>

\* watchJobs opens the prefix watch, without a revision: it delivers the
\* changes made from now on; then the scheduler is started on the cache
OpenWatch(w) ==
    /\ pc[w] = "loaded"
    /\ pc' = [pc EXCEPT ![w] = "select"]
    /\ jobPlans' = [jobPlans EXCEPT ![w] = LoadJobs(jobsCache[w], now)]
    /\ UNCHANGED <<now, apiVars, sinkVars, etcdVars, lockVars, watchVars, jobExecuting,
                   tick, execVars>>

\* worker w1 comes up, at any moment, while the master saves and deletes
\* definitions of j1
InitMirror ==
    /\ now = 0
    /\ \E stored \in StoredAtStart : InitCluster(stored, {})

NextMirror ==
    \/ LoadJobsScan("w1")
    \/ OpenWatch("w1")
    \/ \E job \in PlanSaves : MasterSaveJob(job)
    \/ \E name \in Jobs : MasterDeleteJob(name)
    \/ \E w \in Workers : WatchJobs(w)
    \/ \E w \in Workers : HandleJobEvent(w)

SpecMirror == InitMirror /\ [][NextMirror]_vars

\* C35: a worker whose watch is open and has no delta waiting holds in its
\* cache exactly the definitions in the store
C35_CacheMirrorsStore ==
    \A w \in Workers :
        (Started(w) /\ watchChan[w] = <<>>) => jobsCache[w] = kvJobs

\* ------------------------------------------------ KillJob right after dispatch
\* C36: when Scheduler.KillJob(name) finds an entry it returns nil and
\* leaves every task of the job on that worker with its context cancelled
\* (or already past its deadline)
C36_KillCancelsInFlight ==
    [][\A w \in Workers, name \in Jobs :
          (SchedulerKillJob(w, name) /\ jobExecuting[w][name] # None) =>
              /\ killErr'[w] = "nil"
              /\ \A e \in running' :
                    (e.worker = w /\ e.job = name) => e.ctx \in {"cancelled", "deadline"}]_vars

\* --------------------------------------- commitLogs, statement by statement
\* logBatch has no lock: the sink's task appends to it and commits it, and
\* Stop commits it from the task that calls Stop. commitLogs first copies
\* the batch, then hands the copy to InsertMany and empties the batch.
commitFrame == <<now, lwt, killErr, masterVars, ctx, access, etcdVars, lockVars,
                 watchVars, schedVars, execVars>>

\* commitLogs has copied the batch
Copied(batch, by) == [at |-> "copied", logs |-> batch, by |-> by]

\* the sink's task receives a log and appends it; a full batch is copied
WorkerReceive ==
    /\ commit.worker.at = "idle"
    /\ logChan # <<>>
    /\ logChan' = Tail(logChan)
    /\ logBatch' = Append(logBatch, Head(logChan))
    /\ commit' = IF BatchFull(logBatch')
                 THEN [commit EXCEPT !.worker = Copied(logBatch', "size")]
                 ELSE commit
    /\ UNCHANGED <<commitFrame, store, commitTimer>>

\* the sink's task receives the timer's expiry; a batch that holds
\* something is copied, an empty one only arms the timer again
WorkerTimer ==
    /\ commit.worker.at = "idle"
    /\ commitTimer = "fired"
    /\ IF HasLogs(logBatch)
       THEN /\ commit' = [commit EXCEPT !.worker = Copied(logBatch, "timer")]
            /\ UNCHANGED commitTimer
       ELSE /\ commitTimer' = "armed"
            /\ UNCHANGED commit
    /\ UNCHANGED <<commitFrame, logChan, logBatch, store>>

\* Stop is called, once: a batch that holds something is copied
StopBegin ==
    /\ commit.stop.at = "idle"
    /\ commit' = [commit EXCEPT !.stop =
                     IF Len(logBatch) > 0 THEN Copied(logBatch, "stop")
                     ELSE [NoCommit EXCEPT !.at = "returned"]]
    /\ UNCHANGED <<commitFrame, sinkVars>>

\* the rest of commitLogs in the sink's task: InsertMany of the copy, the
\* batch is emptied, and the timer is reset
WorkerCommitEnd ==
    /\ commit.worker.at = "copied"
    /\ \E ok \in BOOLEAN :
          store' = Append(store, [logs |-> commit.worker.logs, ok |-> ok,
                                  by |-> commit.worker.by])
    /\ logBatch' = <<>>
    /\ commitTimer' \in (IF commit.worker.by = "size" THEN ResetAfterCommit ELSE {"armed"})
    /\ commit' = [commit EXCEPT !.worker = NoCommit]
    /\ UNCHANGED <<commitFrame, logChan>>

\* the rest of commitLogs in Stop, and Stop returns
StopCommitEnd ==
    /\ commit.stop.at = "copied"
    /\ \E ok \in BOOLEAN :
          store' = Append(store, [logs |-> commit.stop.logs, ok |-> ok, by |-> "stop"])
    /\ logBatch' = <<>>
    /\ commit' = [commit EXCEPT !.stop = [NoCommit EXCEPT !.at = "returned"]]
    /\ UNCHANGED <<commitFrame, logChan, commitTimer>>

NextCommit ==
    \/ LogSinkAppend
    \/ WorkerReceive
    \/ TimerExpires
    \/ WorkerTimer
    \/ WorkerCommitEnd
    \/ StopBegin
    \/ StopCommitEnd

SpecCommit == InitSinkOnly /\ [][NextCommit]_vars

\* how many times the log has been handed to InsertMany
Inserts(log) == Cardinality({i \in 1 .. Len(Flat(store)) : Flat(store)[i] = log})

\* C37: no log is handed to InsertMany twice, and a log leaves the batch
\* only in a step that hands it, or has handed it, to InsertMany
C37_EachLogInsertedOnce ==
    /\ [](\A n \in 1 .. MaxLogs : Inserts(JobLog(n)) <= 1)
    /\ [][\A n \in 1 .. MaxLogs :
             ((\E i \in 1 .. Len(logBatch) : logBatch[i] = JobLog(n))
                  /\ \A i \in 1 .. Len(logBatch') : logBatch'[i] # JobLog(n))
             => Inserts(JobLog(n))' >= 1]_vars

\* --------------------------------------- deleted definitions stay deleted
\* C38: a name without definition gets one only by a SaveJob call
C38_DeletedStaysDeleted ==
    [][\A name \in Jobs :
          (kvJobs[name] = None /\ kvJobs'[name] # None) =>
              \E job \in AskedJobs : job.Name = name /\ SaveJob(job)]_vars

\* ------------------------------------------- the lease of a failed TryLock
\* C39: a TryLock that finds the lock key present leaves the set of live
\* leases as it found it
C39_FailedTryLockLeavesNoLease ==
    [][\A w \in Workers :
          (LockTryLock(w) /\ lockKey[jl[w].jobName] # 0) => leases' = leases]_vars

\* --------------------------------------- the JobLog of an execution
\* C40: every JobLog handed to the sink carries the plan time of the
\* execution its result comes from, which this worker dispatched, and a
\* schedule time not before it; the step that builds it takes both times
\* from the entry the in-flight table holds for the job, and that entry is
\* the one stored at the dispatch of that execution
C40_LogPairsResultWithItsDispatch ==
    /\ [](\A w \in Workers : \A log \in appended[w] :
             /\ log.PlanTime = log.resultOf
             /\ [worker |-> w, job |-> log.JobName, fire |-> log.PlanTime] \in dispatched
             /\ log.PlanTime <= log.ScheduleTime)
    /\ [](\A w \in Workers, j \in Jobs :
             jobExecuting[w][j] # None =>
                 /\ jobExecuting[w][j].PlanTime <= jobExecuting[w][j].RealTime
                 /\ \A i \in PendingResults(w, j) :
                        jobResults[w][i].PlanTime = jobExecuting[w][j].PlanTime
                 /\ \A e \in Unfinished(w, j) : e.PlanTime = jobExecuting[w][j].PlanTime)
    /\ [][\A w \in Workers :
             (HandleExecuteResults(w) /\ appended'[w] # appended[w]) =>
                 LET result == Head(jobResults[w])
                     info == jobExecuting[w][result.JobName]
                 IN  appended'[w] \ appended[w] =
                         {[JobName |-> result.JobName, PlanTime |-> info.PlanTime,
                           ScheduleTime |-> info.RealTime, resultOf |-> result.PlanTime]}]_vars

\* a worker has logged an execution that it dispatched late, after an
\* earlier execution of the same job on the same worker
C40_Witness ==
    \E w \in Workers : \E log \in appended[w] : \E d \in dispatched :
        /\ d.worker = w /\ d.job = log.JobName /\ d.fire < log.PlanTime
        /\ log.PlanTime < log.ScheduleTime

====
